---- MODULE Spec2Model ----
(***************************************************************************)
(* A model of the lead-generation pipeline core of python-finder:          *)
(*   leadgen/utils/state.py     StateStore (the deduplication store)       *)
(*   leadgen/io/storage.py      OutputManager (the output artifacts)       *)
(*   leadgen/utils/proxy.py     ProxyManager (proxy rotation)              *)
(*   leadgen/utils/domain.py    DomainResolver (domain classification)     *)
(*   leadgen/orchestrator.py    LeadOrchestrator (the three phases)        *)
(*   leadgen/cli/main.py        main (fresh/resume, save_results)          *)
(*                                                                         *)
(* A Python str is a sequence of one-character strings, so that lower(),   *)
(* strip(), startswith() and the key formatting are computed, not assumed. *)
(* Python's None is the one-element sequence None below, which is no       *)
(* string of characters.                                                   *)
(***************************************************************************)
EXTENDS Integers, Sequences, FiniteSets, TLC

VARIABLES
    \* ---- StateStore (state.py:16-28) and the files it reads and writes
    seen_companies,   \* self.seen_companies: set of company keys
    seen_domains,     \* self.seen_domains
    seen_emails,      \* self.seen_emails
    state_file,       \* ./state/state.json: [exists, companies, domains, emails]
    companies_files,  \* output/companies.<ext>: ext -> [exists, rows]
    domains_files,    \* output/domains.<ext>
    emails_files,     \* output/emails.<ext>
    format,           \* OutputConfig.format
    \* ---- the last StateStore/OutputManager operation, its argument and result
    lastOp,
    prevOp,
    ret,
    \* ---- the two inputs of a key-normalisation run: [kind, v]
    inA,
    inB,
    \* ---- ProxyManager (proxy.py:14-26) and config/proxies.txt
    proxies,          \* self.proxies: sequence of proxy urls
    proxy_index,      \* self.proxy_index
    use_counts,       \* self.use_counts: url -> uses since the last passed test
    test_interval,    \* self.test_interval
    proxies_file,     \* the lines of proxies.txt: [url, commented]
    proxyPc,          \* "idle", or "recursing" inside _get_proxy
    returned,         \* what the last completed _get_proxy call returned
    ncalls,           \* completed _get_proxy calls on this manager
    depth,            \* recursion depth of the call in progress
    \* ---- one call of ProxyManager.request (proxy.py:62-160)
    reqPc,            \* "idle", "select" (in _get_proxy), "send", "returned", "raised"
    nreq,             \* calls of request started on this manager
    max_attempts,     \* the local max_attempts
    default_attempts, \* the caller passed max_attempts=None
    per_request,      \* the argument per_request
    kw_proxies,       \* 'proxies' in kwargs
    attempt,          \* iterations of the for loop begun and finished
    proxy,            \* the local proxy of the iteration in hand
    last_exception,   \* the local last_exception: its class, or "None"
    outcome,          \* how the call ended: the response returned or the error raised
    sent,             \* requests.request calls made by this call of request
    last_send,        \* the latest of them: [proxy, o], o what it did
    failed,           \* ghost: the proxies whose attempt of this call failed at proxy level
    \* ---- the process: cli/main.py and LeadOrchestrator (orchestrator.py:22-33)
    pc,               \* where the process is: "boot", a phase, "returned", ...
    run,              \* processes started so far
    state_store,      \* orchestrator.state_store is set
    fresh_cleared,    \* main took the fresh branch (clear_state, files deleted)
    fresh,            \* args.fresh of the process
    alone,            \* config.run_email_finder_alone
    n_providers,      \* len(self.providers)
    n_queries,        \* len(self.config.queries)
    n_domain_finders, \* len(self.domain_finders)
    n_finders,        \* len(self.finders)
    companies,        \* self.companies
    domains,          \* self.domains
    email_results,    \* self.email_results
    all_companies,    \* run_provider_search: all_companies
    pq,               \* (provider, query) pairs already searched
    ci,               \* run_domain_discovery: index of the company in hand
    fi,               \* run_domain_discovery: index of the finder to try next
    result,           \* run_domain_discovery: the local `result`, [bound, value]
    domains_to_process, \* run_email_discovery: domains_to_process
    entered,            \* ghost: run_email_discovery was entered in this process
    ek,               \* (finder, domain) pairs already asked for emails
    log,              \* the calls made to providers and finders by this process
    searched,         \* this process has finished its search loop and filter
    prev_candidates,  \* all_companies of the last earlier process that did
    prev_searched     \* such a process exists and its keys were not cleared since

storeVars == <<seen_companies, seen_domains, seen_emails, state_file>>
fileVars == <<companies_files, domains_files, emails_files, format>>
opVars == <<lastOp, prevOp, ret>>
keyVars == <<inA, inB>>
reqVars == <<reqPc, nreq, max_attempts, default_attempts, per_request, kw_proxies,
             attempt, proxy, last_exception, outcome, sent, last_send, failed>>
proxyVars == <<proxies, proxy_index, use_counts, test_interval, proxies_file,
               proxyPc, returned, ncalls, depth>>

pipeVars == <<pc, run, state_store, fresh_cleared, fresh, alone, n_providers, n_queries,
              n_domain_finders, n_finders, companies, domains, email_results,
              all_companies, pq, ci, fi, result, domains_to_process, entered, ek, log,
              searched, prev_candidates, prev_searched>>

vars == <<storeVars, fileVars, opVars, keyVars, reqVars, proxyVars, pipeVars>>

(***************************************************************************)
(* Python values                                                           *)
(***************************************************************************)
None == <<"NONE">>

Empty == <<>>

IsStr(v) == v # None

\* `x or ""`
OrEmpty(v) == IF v = None THEN Empty ELSE v

Whitespace == {" ", "\t", "\n"}

LowerLetters == <<"a", "b", "c", "d", "e", "f", "g", "h", "i", "j", "k", "l", "m", "n", "o", "p", "q", "r", "s", "t", "u", "v", "w", "x", "y", "z">>

UpperLetters == <<"A", "B", "C", "D", "E", "F", "G", "H", "I", "J", "K", "L", "M", "N", "O", "P", "Q", "R", "S", "T", "U", "V", "W", "X", "Y", "Z">>

\* the lower-case form of one character
LowerChar(c) ==
    IF \E i \in 1..26 : UpperLetters[i] = c
    THEN LowerLetters[CHOOSE i \in 1..26 : UpperLetters[i] = c]
    ELSE c

\* str.lower()
Lower(s) == [i \in DOMAIN s |-> LowerChar(s[i])]

SetMin(S) == CHOOSE m \in S : \A k \in S : m <= k

SetMax(S) == CHOOSE m \in S : \A k \in S : m >= k

\* str.strip()
Strip(s) ==
    LET idx == {i \in DOMAIN s : s[i] \notin Whitespace}
    IN  IF idx = {} THEN Empty ELSE SubSeq(s, SetMin(idx), SetMax(idx))

\* str.startswith(p)
StartsWith(s, p) == Len(s) >= Len(p) /\ SubSeq(s, 1, Len(p)) = p

\* p in s
Contains(s, p) ==
    \E i \in 0..(Len(s) - Len(p)) : SubSeq(s, i + 1, i + Len(p)) = p

Range(f) == {f[i] : i \in DOMAIN f}

\* list(a_set): some enumeration of the set
RECURSIVE SetToSeq(_)
SetToSeq(S) ==
    IF S = {} THEN <<>>
    ELSE LET e == CHOOSE e \in S : TRUE IN <<e>> \o SetToSeq(S \ {e})

(***************************************************************************)
(* Company, Contact, EmailResult (models/company.py, models/email_result.py)*)
(***************************************************************************)
\* Company.to_dict(): the dataclass and its dict have the same six fields
CompanyToDict(c) ==
    [id |-> c.id, name |-> c.name, url |-> c.url, domain |-> c.domain,
     address |-> c.address, phone |-> c.phone]

\* Contact.to_dict()
ContactToDict(k) ==
    [name |-> k.name, company_name |-> k.company_name, email |-> k.email,
     position |-> k.position]

Bar == <<"|">>

\* a slip: the provider's id is made part of the key
NormalizeCompanyKeyObjWithId(c) ==
    Strip(Lower(OrEmpty(c.id))) \o Bar \o Strip(Lower(OrEmpty(c.name))) \o Bar
    \o Strip(Lower(OrEmpty(c.address))) \o Bar \o Strip(Lower(OrEmpty(c.url)))

\* _normalize_company_key of a Company object: Company has no city and no
\* location attribute, so getattr(...) or "" gives "" for the city
NormalizeCompanyKeyObj(c) ==
    LET name == OrEmpty(c.name)
        city == Empty
        address == OrEmpty(c.address)
        url == OrEmpty(c.url)
    IN  Strip(Lower(name)) \o Bar \o Strip(Lower(city)) \o Bar
        \o Strip(Lower(address)) \o Bar \o Strip(Lower(url))

\* _normalize_company_key of a dict read from an output file: dict.get(k, "")
\* returns the stored value, None included, and None.lower() raises
DictKeyRaises(d) == d.name = None \/ d.address = None \/ d.url = None

NormalizeCompanyKeyDict(d) ==
    Strip(Lower(d.name)) \o Bar \o Strip(Lower(Empty)) \o Bar
    \o Strip(Lower(d.address)) \o Bar \o Strip(Lower(d.url))

(***************************************************************************)
(* StateStore: membership and marking (state.py:229-253)                   *)
(***************************************************************************)
\* a slip: no company counts as seen
is_seen_company_never(sc, c) == FALSE

is_seen_company(sc, c) == NormalizeCompanyKeyObj(c) \in sc

is_seen_domain(sd, d) == Strip(d) \in sd

is_seen_email(se, e) == Strip(Lower(e)) \in se

\* a slip: the key is not recorded
add_seen_company_forgets(sc, c) == sc

add_seen_company(sc, c) == sc \cup {NormalizeCompanyKeyObj(c)}

\* a slip: the set is assigned, not added to
add_seen_domain_assigns(sd, d) == {Strip(d)}

add_seen_domain(sd, d) == sd \cup {Strip(d)}

add_seen_email(se, e) == se \cup {Strip(Lower(e))}

(***************************************************************************)
(* The files: ./state/state.json and the output artifacts                  *)
(***************************************************************************)
Formats == {"csv", "jsonl", "json", "txt", "xlsx"}

DomainExts == {"txt", "csv"}

NoFile == [exists |-> FALSE, rows |-> <<>>]

NoStateFile == [exists |-> FALSE, companies |-> <<>>, domains |-> <<>>, emails |-> <<>>]

\* csv.DictWriter writes None as the empty field
CsvCell(v) == OrEmpty(v)

CompanyHeader ==
    [id |-> <<"i", "d">>, name |-> <<"n", "a", "m", "e">>, url |-> <<"u", "r", "l">>,
     domain |-> <<"d", "o", "m", "a", "i", "n">>,
     address |-> <<"a", "d", "d", "r", "e", "s", "s">>,
     phone |-> <<"p", "h", "o", "n", "e">>]

ContactHeader ==
    [name |-> <<"n", "a", "m", "e">>,
     company_name |-> <<"c", "o", "m", "p", "a", "n", "y", "_", "n", "a", "m", "e">>,
     email |-> <<"e", "m", "a", "i", "l">>,
     position |-> <<"p", "o", "s", "i", "t", "i", "o", "n">>]

DomainHeader == <<"d", "o", "m", "a", "i", "n">>

CompanyCsvRow(d) ==
    [id |-> CsvCell(d.id), name |-> CsvCell(d.name), url |-> CsvCell(d.url),
     domain |-> CsvCell(d.domain), address |-> CsvCell(d.address),
     phone |-> CsvCell(d.phone)]

ContactCsvRow(d) ==
    [name |-> CsvCell(d.name), company_name |-> CsvCell(d.company_name),
     email |-> CsvCell(d.email), position |-> CsvCell(d.position)]

MapSeq(F(_), q) == [i \in DOMAIN q |-> F(q[i])]

\* _save_txt and _save_jsonl: open(..., "a"), one JSON object per line
AppendJsonLines(file, data) == [exists |-> TRUE, rows |-> file.rows \o data]

\* _save_csv of company dicts: open(..., "a"), writeheader(), writerows(data);
\* nothing at all for empty data
SaveCsvCompanies(file, data) ==
    IF data = <<>> THEN file
    ELSE [exists |-> TRUE,
          rows |-> file.rows \o <<CompanyHeader>> \o MapSeq(CompanyCsvRow, data)]

\* _save_csv of contact dicts
SaveCsvContacts(file, data) ==
    IF data = <<>> THEN file
    ELSE [exists |-> TRUE,
          rows |-> file.rows \o <<ContactHeader>> \o MapSeq(ContactCsvRow, data)]

\* _save_xlsx: the header only when the workbook is new, then the rows
SaveXlsxContacts(file, data) ==
    IF data = <<>> THEN file
    ELSE [exists |-> TRUE,
          rows |-> (IF file.exists THEN file.rows ELSE <<ContactHeader>>) \o data]

\* _save_companies: the target file and writer by format; every format that is
\* neither json(l) nor csv goes to companies.txt
SaveCompanies(cf, fmt, cs) ==
    LET data == MapSeq(CompanyToDict, cs)
    IN  IF fmt \in {"jsonl", "json"}
        THEN [cf EXCEPT !["jsonl"] = AppendJsonLines(@, data)]
        ELSE IF fmt = "csv"
        THEN [cf EXCEPT !["csv"] = SaveCsvCompanies(@, data)]
        ELSE [cf EXCEPT !["txt"] = AppendJsonLines(@, data)]

\* _save_domains_filtered / _save_domains_set: open(..., "w"); an empty set
\* truncates domains.txt whatever the format. The lines are written sorted;
\* they are only ever read back into a set.
SaveDomainsSet(df, fmt, ds) ==
    IF ds = {}
    THEN [df EXCEPT !["txt"] = [exists |-> TRUE, rows |-> <<>>]]
    ELSE IF fmt = "csv"
    THEN [df EXCEPT !["csv"] = [exists |-> TRUE, rows |-> <<DomainHeader>> \o SetToSeq(ds)]]
    ELSE [df EXCEPT !["txt"] = [exists |-> TRUE, rows |-> SetToSeq(ds)]]

\* the contacts of the results with success and emails, as dicts
RECURSIVE EmailsList(_)
EmailsList(results) ==
    IF results = <<>> THEN <<>>
    ELSE LET r == Head(results)
         IN  (IF r.success /\ r.emails # <<>> THEN MapSeq(ContactToDict, r.emails) ELSE <<>>)
             \o EmailsList(Tail(results))

\* _save_emails
SaveEmails(ef, fmt, rs) ==
    LET data == EmailsList(rs)
    IN  IF data = <<>> THEN ef
        ELSE IF fmt = "csv" THEN [ef EXCEPT !["csv"] = SaveCsvContacts(@, data)]
        ELSE IF fmt \in {"jsonl", "json"} THEN [ef EXCEPT !["jsonl"] = AppendJsonLines(@, data)]
        ELSE IF fmt = "xlsx" THEN [ef EXCEPT !["xlsx"] = SaveXlsxContacts(@, data)]
        ELSE [ef EXCEPT !["txt"] = AppendJsonLines(@, data)]

(***************************************************************************)
(* StateStore._load_from_files (state.py:51-227)                           *)
(***************************************************************************)
\* formats = [format]; ["jsonl", "json"] for either of the two
LoadFormats(fmt) == IF fmt \in {"json", "jsonl"} THEN <<"jsonl", "json">> ELSE <<fmt>>

\* csv.DictReader and the xlsx header row: the first row names the fields, every
\* later row (a repeated header too) is a record
DataRows(rows) == IF rows = <<>> THEN <<>> ELSE Tail(rows)

\* the keys of the dicts are added one at a time until one raises
RECURSIVE AddCompanyDicts(_, _)
AddCompanyDicts(sc, dicts) ==
    IF dicts = <<>> THEN [set |-> sc, raised |-> FALSE]
    ELSE IF DictKeyRaises(Head(dicts)) THEN [set |-> sc, raised |-> TRUE]
    ELSE AddCompanyDicts(sc \cup {NormalizeCompanyKeyDict(Head(dicts))}, Tail(dicts))

\* one file of _load_companies; _load_companies_xlsx swallows its own exceptions
LoadCompaniesFile(sc, file, fmt) ==
    IF fmt \in {"csv", "xlsx"}
    THEN LET r == AddCompanyDicts(sc, DataRows(file.rows))
         IN  [set |-> r.set, raised |-> r.raised /\ fmt = "csv"]
    ELSE AddCompanyDicts(sc, file.rows)

\* _load_companies: the first file that exists and loads without raising ends
\* the loop; one that raises keeps what it added and lets the next format try
RECURSIVE LoadCompaniesFrom(_, _, _)
LoadCompaniesFrom(sc, cf, fmts) ==
    IF fmts = <<>> THEN sc
    ELSE IF ~cf[Head(fmts)].exists THEN LoadCompaniesFrom(sc, cf, Tail(fmts))
    ELSE LET r == LoadCompaniesFile(sc, cf[Head(fmts)], Head(fmts))
         IN  IF r.raised THEN LoadCompaniesFrom(r.set, cf, Tail(fmts)) ELSE r.set

LoadCompanies(sc, cf, fmt) == LoadCompaniesFrom(sc, cf, LoadFormats(fmt))

NonEmptyStripped(lines) == {Strip(lines[i]) : i \in DOMAIN lines} \ {Empty}

\* _load_domains: domains.txt if it exists, else domains.csv (header skipped)
LoadDomains(sd, df) ==
    IF df["txt"].exists THEN sd \cup NonEmptyStripped(df["txt"].rows)
    ELSE IF df["csv"].exists THEN sd \cup NonEmptyStripped(DataRows(df["csv"].rows))
    ELSE sd

\* email = row.get("email", "").strip(); if email: add(email.lower())
RECURSIVE AddEmailDicts(_, _)
AddEmailDicts(se, dicts) ==
    IF dicts = <<>> THEN [set |-> se, raised |-> FALSE]
    ELSE IF Head(dicts).email = None THEN [set |-> se, raised |-> TRUE]
    ELSE LET email == Strip(Head(dicts).email)
         IN  AddEmailDicts(IF email # Empty THEN se \cup {Lower(email)} ELSE se, Tail(dicts))

\* the xlsx rows: a cell that is None or "" is skipped
RECURSIVE AddEmailCells(_, _)
AddEmailCells(se, dicts) ==
    IF dicts = <<>> THEN se
    ELSE LET cell == Head(dicts).email
             email == Strip(OrEmpty(cell))
         IN  AddEmailCells(IF email # Empty THEN se \cup {Lower(email)} ELSE se, Tail(dicts))

\* one file of _load_emails; the txt format has no branch and loads nothing
LoadEmailsFile(se, file, fmt) ==
    IF fmt = "csv" THEN AddEmailDicts(se, DataRows(file.rows))
    ELSE IF fmt \in {"jsonl", "json"} THEN AddEmailDicts(se, file.rows)
    ELSE IF fmt = "xlsx" THEN [set |-> AddEmailCells(se, DataRows(file.rows)), raised |-> FALSE]
    ELSE [set |-> se, raised |-> FALSE]

RECURSIVE LoadEmailsFrom(_, _, _)
LoadEmailsFrom(se, ef, fmts) ==
    IF fmts = <<>> THEN se
    ELSE IF ~ef[Head(fmts)].exists THEN LoadEmailsFrom(se, ef, Tail(fmts))
    ELSE LET r == LoadEmailsFile(se, ef[Head(fmts)], Head(fmts))
         IN  IF r.raised THEN LoadEmailsFrom(r.set, ef, Tail(fmts)) ELSE r.set

LoadEmails(se, ef, fmt) == LoadEmailsFrom(se, ef, LoadFormats(fmt))

(***************************************************************************)
(* StateStore: the snapshot (state.py:30-49, 255-284)                      *)
(***************************************************************************)
\* a slip: the emails list is written from the domains
SnapshotOfWrongList(sc, sd, se) ==
    [exists |-> TRUE, companies |-> SetToSeq(sc), domains |-> SetToSeq(sd),
     emails |-> SetToSeq(sd)]

\* a slip: the company keys are left out of the snapshot
SnapshotOfNoCompanies(sc, sd, se) ==
    [exists |-> TRUE, companies |-> <<>>, domains |-> SetToSeq(sd),
     emails |-> SetToSeq(se)]

\* save_state: json.dump of the three sets as lists, open(..., "w")
SnapshotOf(sc, sd, se) ==
    [exists |-> TRUE, companies |-> SetToSeq(sc), domains |-> SetToSeq(sd),
     emails |-> SetToSeq(se)]

\* OutputManager.save_results
SaveResults(cs, rs, filtered_domains) ==
    /\ companies_files' =
         IF cs # <<>> THEN SaveCompanies(companies_files, format, cs)
         ELSE companies_files
    /\ domains_files' = SaveDomainsSet(domains_files, format, filtered_domains)
    /\ emails_files' =
         IF rs # <<>> THEN SaveEmails(emails_files, format, rs)
         ELSE emails_files
    /\ UNCHANGED format

\* a slip: save_state writes nothing
SaveStateWritesNothing ==
    UNCHANGED <<state_file, seen_companies, seen_domains, seen_emails>>

\* StateStore.save_state
SaveState ==
    /\ state_file' = SnapshotOf(seen_companies, seen_domains, seen_emails)
    /\ UNCHANGED <<seen_companies, seen_domains, seen_emails>>

\* StateStore.load_from_output: the snapshot if the file exists, else the files
LoadFromOutput ==
    /\ IF state_file.exists
       THEN /\ seen_companies' = Range(state_file.companies)
            /\ seen_domains' = Range(state_file.domains)
            /\ seen_emails' = Range(state_file.emails)
       ELSE /\ seen_companies' = LoadCompanies(seen_companies, companies_files, format)
            /\ seen_domains' = LoadDomains(seen_domains, domains_files)
            /\ seen_emails' = LoadEmails(seen_emails, emails_files, format)
    /\ UNCHANGED state_file

\* a slip: the snapshot file is not unlinked
ClearStateKeepsFile ==
    /\ seen_companies' = {}
    /\ seen_domains' = {}
    /\ seen_emails' = {}
    /\ UNCHANGED state_file

\* StateStore.clear_state
ClearState ==
    /\ seen_companies' = {}
    /\ seen_domains' = {}
    /\ seen_emails' = {}
    /\ state_file' = NoStateFile

(***************************************************************************)
(* Constructors of the records the model draws its inputs from             *)
(***************************************************************************)
Company(id, name, url, address, phone) ==
    [id |-> id, name |-> name, url |-> url, domain |-> None, address |-> address,
     phone |-> phone]

Contact(name, email) ==
    [name |-> name, company_name |-> <<"c">>, email |-> email, position |-> Empty]

EmailResult(domain, emails, finder, success, error) ==
    [domain |-> domain, emails |-> emails, finder |-> finder, success |-> success,
     error |-> error]

NoFiles(exts) == [x \in exts |-> NoFile]

NoInput == [kind |-> "none", v |-> None]

InitStoreEmpty ==
    /\ seen_companies = {}
    /\ seen_domains = {}
    /\ seen_emails = {}
    /\ state_file = NoStateFile

\* no process has been started
InitNoPipe ==
    /\ pc = "boot"
    /\ run = 0
    /\ state_store = FALSE
    /\ fresh_cleared = FALSE
    /\ fresh = FALSE
    /\ alone = FALSE
    /\ n_providers = 0
    /\ n_queries = 0
    /\ n_domain_finders = 0
    /\ n_finders = 0
    /\ companies = <<>>
    /\ domains = {}
    /\ email_results = <<>>
    /\ all_companies = <<>>
    /\ pq = 0
    /\ ci = 1
    /\ fi = 1
    /\ result = [bound |-> FALSE, value |-> EmailResult(Empty, <<>>, "", FALSE, None)]
    /\ domains_to_process = <<>>
    /\ entered = FALSE
    /\ ek = 0
    /\ log = <<>>
    /\ searched = FALSE
    /\ prev_candidates = <<>>
    /\ prev_searched = FALSE

Op(name) == /\ lastOp' = name
            /\ prevOp' = lastOp
            /\ ret' = FALSE

Query(name, value) == /\ lastOp' = name
                      /\ prevOp' = lastOp
                      /\ ret' = value

(***************************************************************************)
(* ProxyManager (proxy.py)                                                 *)
(***************************************************************************)
MaxPool == 3

MaxInterval == 3

MaxCalls == 7

MaxDepth == 3

\* the default of ProxyManager.__init__'s test_interval
DefaultTestInterval == 10

\* a proxy url: its scheme and the rest
ProxyUrl(i) == [scheme |-> IF i % 2 = 0 THEN "socks5" ELSE "http", host |-> i]

AllProxies == {ProxyUrl(i) : i \in 1..(MaxPool + 1)}

NoProxy == [scheme |-> "none", host |-> 0]

\* _normalize_proxy: socks5:// becomes socks5h://, the url serves http and https
NormalizeProxy(url) ==
    LET u == IF url.scheme = "socks5" THEN [url EXCEPT !.scheme = "socks5h"] ELSE url
    IN  [http |-> u, https |-> u]

NoneProxy == [http |-> NoProxy, https |-> NoProxy]

\* ConfigLoader._read_lines of proxies.txt: the lines that are no comment
ReadProxyLines(lines) ==
    LET keep == {i \in DOMAIN lines : ~lines[i].commented}
        F[k \in 0..Len(lines)] ==
            IF k = 0 THEN <<>>
            ELSE IF k \in keep THEN Append(F[k - 1], lines[k].url) ELSE F[k - 1]
    IN  F[Len(lines)]

\* _disable_proxy: the line of proxies.txt that is this url is commented out;
\* self.proxies is not touched
DisableProxy(lines, url) ==
    [i \in DOMAIN lines |->
        IF lines[i].url = url /\ ~lines[i].commented
        THEN [lines[i] EXCEPT !.commented = TRUE] ELSE lines[i]]

\* [p for p in self.proxies if not p.strip().startswith("#")]: the urls held in
\* memory are the uncommented lines read at construction, none starts with "#"
FilterCommented(ps) == ps

\* a slip: the index is not advanced
NextIndexStuck(i) == i

\* self.proxy_index += 1
NextIndex(i) == i + 1

\* one activation of _get_proxy on a non-empty pool; testOk is the answer of
\* _test_proxy, asked only when the use count has reached test_interval
GetProxyBody(testOk) ==
    LET url == proxies[(proxy_index % Len(proxies)) + 1]
        count == use_counts[url] + 1
    IN  /\ proxy_index' = NextIndex(proxy_index)
        /\ IF count >= test_interval /\ ~testOk
           THEN /\ depth < MaxDepth
                /\ use_counts' = [use_counts EXCEPT ![url] = count]
                /\ proxies_file' = DisableProxy(proxies_file, url)
                /\ proxies' = FilterCommented(proxies)
                /\ proxyPc' = "recursing"
                /\ depth' = depth + 1
                /\ UNCHANGED <<returned, ncalls>>
           ELSE /\ use_counts' = [use_counts EXCEPT ![url] = IF count >= test_interval THEN 0 ELSE count]
                /\ returned' = NormalizeProxy(url)
                /\ ncalls' = ncalls + 1
                /\ proxyPc' = "idle"
                /\ depth' = 0
                /\ UNCHANGED <<proxies, proxies_file>>
        /\ UNCHANGED test_interval

\* _get_proxy called on an empty pool
GetProxyEmpty ==
    /\ proxyPc = "idle"
    /\ ncalls < MaxCalls
    /\ proxies = <<>>
    /\ returned' = NoneProxy
    /\ ncalls' = ncalls + 1
    /\ UNCHANGED <<proxies, proxy_index, use_counts, test_interval, proxies_file, proxyPc, depth>>
    /\ UNCHANGED <<storeVars, fileVars, opVars, keyVars, reqVars, pipeVars>>

\* _get_proxy called on a non-empty pool
GetProxy ==
    /\ proxyPc = "idle"
    /\ ncalls < MaxCalls
    /\ proxies # <<>>
    /\ \E testOk \in BOOLEAN : GetProxyBody(testOk)
    /\ UNCHANGED <<storeVars, fileVars, opVars, keyVars, reqVars, pipeVars>>

\* return self._get_proxy(): the next activation after a failed health check
GetProxyRecurse ==
    /\ proxyPc = "recursing"
    /\ proxies # <<>>
    /\ \E testOk \in BOOLEAN : GetProxyBody(testOk)
    /\ UNCHANGED <<storeVars, fileVars, opVars, keyVars, reqVars, pipeVars>>

\* no call of request has ended yet
NoOutcome == [kind |-> "none", status |-> 0]

\* a manager whose request method is not called
InitNoReq ==
    /\ reqPc = "idle"
    /\ nreq = 0
    /\ max_attempts = 0
    /\ default_attempts = FALSE
    /\ per_request = TRUE
    /\ kw_proxies = FALSE
    /\ attempt = 0
    /\ proxy = NoneProxy
    /\ last_exception = "None"
    /\ outcome = NoOutcome
    /\ sent = 0
    /\ last_send = [proxy |-> NoneProxy, o |-> NoOutcome]
    /\ failed = {}

\* the proxy state of a run that asks for no proxy
InitNoProxy ==
    /\ InitNoReq
    /\ proxies = <<>>
    /\ proxy_index = 0
    /\ use_counts = [u \in AllProxies |-> 0]
    /\ test_interval = DefaultTestInterval
    /\ proxies_file = <<>>
    /\ proxyPc = "idle"
    /\ returned = NoneProxy
    /\ ncalls = 0
    /\ depth = 0

\* ProxyManager(test_interval = t) over a proxies.txt of n lines
InitProxy ==
    /\ \E n \in 0..MaxPool :
           proxies_file = [i \in 1..n |-> [url |-> ProxyUrl(i), commented |-> FALSE]]
    /\ proxies = ReadProxyLines(proxies_file)
    /\ proxy_index = 0
    /\ use_counts = [u \in AllProxies |-> 0]
    /\ test_interval \in 1..MaxInterval
    /\ proxyPc = "idle"
    /\ returned = NoneProxy
    /\ ncalls = 0
    /\ depth = 0
    /\ InitNoReq
    /\ InitStoreEmpty
    /\ format = "csv"
    /\ companies_files = NoFiles(Formats)
    /\ domains_files = NoFiles(DomainExts)
    /\ emails_files = NoFiles(Formats)
    /\ lastOp = "init"
    /\ prevOp = "init"
    /\ ret = FALSE
    /\ inA = NoInput
    /\ inB = NoInput
    /\ InitNoPipe

NextProxy ==
    \/ GetProxyEmpty
    \/ GetProxy
    \/ GetProxyRecurse

SpecProxy == InitProxy /\ [][NextProxy]_vars

(***************************************************************************)
(* ProxyManager.request (proxy.py:62-160): the retry loop around           *)
(* requests.request.                                                       *)
(***************************************************************************)
MaxAttempts == 3

MaxRequests == 1

\* the status codes a response is drawn from
Statuses == {200, 404, 500, 429, 403, 407}

\* the exception classes requests.request is drawn to raise; "Exception" is
\* any class that none of the first three except clauses names
SendExceptions ==
    {"requests.ProxyError", "ConnectTimeout", "ReadTimeout", "ConnectionError", "Exception"}

\* what one requests.request call does: a response or an exception
SendOutcomes ==
    {[kind |-> "response", status |-> st] : st \in Statuses}
        \cup {[kind |-> e, status |-> 0] : e \in SendExceptions}

\* max_attempts = len(self.proxies) + 1 if self.proxies else 3
DefaultMaxAttempts(ps) == IF ps # <<>> THEN Len(ps) + 1 ELSE 3

\* the two branches of the loop head that call self._get_proxy()
AsksProxy(per, kw, ps) == (per /\ ps # <<>>) \/ (~per /\ ~kw /\ ps # <<>>)

\* response.raise_for_status() raises HTTPError for a 4xx or 5xx status
RaisesForStatus(st) == 400 <= st /\ st < 600

\* a slip: an error status is handled by the generic except clause
HandlingRetriesHttp(o) ==
    IF o.kind = "response"
    THEN IF o.status = 429 THEN "rate_limited"
         ELSE IF o.status \in {403, 407} THEN "proxy_auth"
         ELSE IF RaisesForStatus(o.status) THEN "Exception"
         ELSE "success"
    ELSE o.kind

\* the branch of the try statement that an outcome of requests.request takes
Handling(o) ==
    IF o.kind = "response"
    THEN IF o.status = 429 THEN "rate_limited"
         ELSE IF o.status \in {403, 407} THEN "proxy_auth"
         ELSE IF RaisesForStatus(o.status) THEN "http_error"
         ELSE "success"
    ELSE o.kind

\* the branches that call self._disable_proxy
Disabling == {"rate_limited", "proxy_auth", "requests.ProxyError",
              "ConnectTimeout", "ReadTimeout", "ConnectionError"}

\* the except clauses that assign last_exception
Recording == {"requests.ProxyError", "ConnectTimeout", "ReadTimeout",
              "ConnectionError", "Exception"}

\* if proxy: self._disable_proxy(proxy.get('http', ...)): the url handed over
\* is the normalised one
DisableUsed(lines, p) == IF p # NoneProxy THEN DisableProxy(lines, p.http) ELSE lines

\* the statements after the loop: what is raised when every attempt failed
AfterLoop(last) ==
    IF last # "None"
    THEN IF last = "requests.ProxyError" THEN "ProxyError" ELSE last
    ELSE "ProxyError"

\* a slip: the loop runs once more than range(max_attempts)
RangeHasNextInclusive(a, n) == a + 1 <= n

\* for attempt in range(max_attempts): there is an iteration after iteration a
RangeHasNext(a, n) == a + 1 < n

\* the end of an iteration that did not leave the loop, last_exception being
\* `last`: the next iteration starts, or the statements after the loop raise
LoopGoesOn(more, last, per, kw) ==
    IF more
    THEN /\ reqPc' = IF AsksProxy(per, kw, proxies) THEN "select" ELSE "send"
         /\ outcome' = NoOutcome
    ELSE /\ reqPc' = "raised"
         /\ outcome' = [kind |-> AfterLoop(last), status |-> 0]

\* request(method, url, max_attempts, per_request, **kwargs) is called
ReqStart ==
    /\ reqPc \in {"idle", "returned", "raised"}
    /\ nreq < MaxRequests
    /\ nreq' = nreq + 1
    /\ per_request' \in BOOLEAN
    /\ kw_proxies' \in BOOLEAN
    /\ default_attempts' \in BOOLEAN
    /\ IF default_attempts'
       THEN max_attempts' = DefaultMaxAttempts(proxies)
       ELSE max_attempts' \in 0..MaxAttempts
    /\ attempt' = 0
    /\ proxy' = NoneProxy
    /\ last_exception' = "None"
    /\ sent' = 0
    /\ last_send' = [proxy |-> NoneProxy, o |-> NoOutcome]
    /\ failed' = {}
    /\ LoopGoesOn(0 < max_attempts', "None", per_request', kw_proxies')
    /\ UNCHANGED <<proxyVars, storeVars, fileVars, opVars, keyVars, pipeVars>>

\* proxy = self._get_proxy(): one activation of _get_proxy inside the loop
ReqSelect ==
    /\ reqPc = "select"
    /\ \E testOk \in BOOLEAN : GetProxyBody(testOk)
    /\ reqPc' = IF proxyPc' = "idle" THEN "send" ELSE "select"
    /\ proxy' = IF proxyPc' = "idle" THEN returned' ELSE proxy
    /\ UNCHANGED <<nreq, max_attempts, default_attempts, per_request, kw_proxies,
                   attempt, last_exception, outcome, sent, last_send, failed>>
    /\ UNCHANGED <<storeVars, fileVars, opVars, keyVars, pipeVars>>

\* requests.request(method, url, **request_kwargs) and the handling of what
\* it does, up to the next call of _get_proxy or requests.request
ReqSend ==
    /\ reqPc = "send"
    /\ \E o \in SendOutcomes :
         LET h == Handling(o)
             last == IF h \in Recording THEN h ELSE last_exception
         IN  /\ sent' = sent + 1
             /\ last_send' = [proxy |-> proxy, o |-> o]
             /\ failed' = IF h \in Disabling /\ proxy # NoneProxy
                          THEN failed \cup {proxy} ELSE failed
             /\ last_exception' = last
             /\ proxies_file' = IF h \in Disabling THEN DisableUsed(proxies_file, proxy)
                                ELSE proxies_file
             /\ IF h = "success"
                THEN /\ reqPc' = "returned"
                     /\ outcome' = o
                     /\ attempt' = attempt
                ELSE IF h = "http_error"
                THEN /\ reqPc' = "raised"
                     /\ outcome' = [kind |-> "HTTPError", status |-> o.status]
                     /\ attempt' = attempt
                ELSE /\ attempt' = attempt + 1
                     /\ LoopGoesOn(RangeHasNext(attempt, max_attempts), last, per_request, kw_proxies)
    /\ proxy' = NoneProxy
    /\ UNCHANGED <<nreq, max_attempts, default_attempts, per_request, kw_proxies>>
    /\ UNCHANGED <<proxies, proxy_index, use_counts, test_interval, proxyPc, returned,
                   ncalls, depth>>
    /\ UNCHANGED <<storeVars, fileVars, opVars, keyVars, pipeVars>>

\* ProxyManager(test_interval = t) over a proxies.txt of n lines, whose
\* request method is about to be called
InitRequest ==
    /\ \E n \in 0..MaxPool :
           proxies_file = [i \in 1..n |-> [url |-> ProxyUrl(i), commented |-> FALSE]]
    /\ proxies = ReadProxyLines(proxies_file)
    /\ proxy_index = 0
    /\ use_counts = [u \in AllProxies |-> 0]
    /\ test_interval \in 1..MaxInterval
    /\ proxyPc = "idle"
    /\ returned = NoneProxy
    /\ ncalls = 0
    /\ depth = 0
    /\ InitNoReq
    /\ InitStoreEmpty
    /\ format = "csv"
    /\ companies_files = NoFiles(Formats)
    /\ domains_files = NoFiles(DomainExts)
    /\ emails_files = NoFiles(Formats)
    /\ lastOp = "init"
    /\ prevOp = "init"
    /\ ret = FALSE
    /\ inA = NoInput
    /\ inB = NoInput
    /\ InitNoPipe

NextRequest ==
    \/ ReqStart
    \/ ReqSelect
    \/ ReqSend

SpecRequest == InitRequest /\ [][NextRequest]_vars

(***************************************************************************)
(* SpecStore: the store on its own. Any sequence of its operations on a    *)
(* small universe of keys, in an output directory that is empty or holds   *)
(* what one OutputManager.save_results call wrote there.                   *)
(***************************************************************************)
StoreCompanies == {Company(<<"1">>, <<"A", " ">>, <<"u">>, Empty, None)}

StoreDomains == {<<"a">>, <<"A">>, <<" ", "a">>}

StoreEmails == {<<"e">>, <<"E", " ">>}

StoreResults ==
    {EmailResult(<<"a">>, <<Contact(<<"n">>, <<"E", " ">>)>>, "hunter", TRUE, None)}

\* the output directory after save_results(cs, rs, ds) in an empty directory
OutputOf(fmt, cs, rs, ds) ==
    [companies |-> IF cs # <<>> THEN SaveCompanies(NoFiles(Formats), fmt, cs)
                   ELSE NoFiles(Formats),
     domains |-> SaveDomainsSet(NoFiles(DomainExts), fmt, ds),
     emails |-> IF rs # <<>> THEN SaveEmails(NoFiles(Formats), fmt, rs)
                ELSE NoFiles(Formats)]

NoOutput ==
    [companies |-> NoFiles(Formats), domains |-> NoFiles(DomainExts),
     emails |-> NoFiles(Formats)]

StorePriorOutputs(fmt) ==
    {NoOutput,
     OutputOf(fmt, <<>>, <<>>, {}),
     OutputOf(fmt, SetToSeq(StoreCompanies), SetToSeq(StoreResults), {<<"a">>})}

StoreAddSeenCompany ==
    \E c \in StoreCompanies :
        /\ seen_companies' = add_seen_company(seen_companies, c)
        /\ Op("add_seen_company")
        /\ UNCHANGED <<seen_domains, seen_emails, state_file, fileVars, keyVars, reqVars, pipeVars, proxyVars>>

StoreAddSeenDomain ==
    \E d \in StoreDomains :
        /\ seen_domains' = add_seen_domain(seen_domains, d)
        /\ Op("add_seen_domain")
        /\ UNCHANGED <<seen_companies, seen_emails, state_file, fileVars, keyVars, reqVars, pipeVars, proxyVars>>

StoreAddSeenEmail ==
    \E e \in StoreEmails :
        /\ seen_emails' = add_seen_email(seen_emails, e)
        /\ Op("add_seen_email")
        /\ UNCHANGED <<seen_companies, seen_domains, state_file, fileVars, keyVars, reqVars, pipeVars, proxyVars>>

StoreIsSeenCompany ==
    \E c \in StoreCompanies :
        /\ Query("is_seen_company", is_seen_company(seen_companies, c))
        /\ UNCHANGED <<storeVars, fileVars, keyVars, reqVars, pipeVars, proxyVars>>

StoreIsSeenDomain ==
    \E d \in StoreDomains :
        /\ Query("is_seen_domain", is_seen_domain(seen_domains, d))
        /\ UNCHANGED <<storeVars, fileVars, keyVars, reqVars, pipeVars, proxyVars>>

StoreIsSeenEmail ==
    \E e \in StoreEmails :
        /\ Query("is_seen_email", is_seen_email(seen_emails, e))
        /\ UNCHANGED <<storeVars, fileVars, keyVars, reqVars, pipeVars, proxyVars>>

StoreSaveState ==
    /\ SaveState
    /\ Op("save_state")
    /\ UNCHANGED <<fileVars, keyVars, reqVars, pipeVars, proxyVars>>

StoreLoadFromOutput ==
    /\ LoadFromOutput
    /\ Op("load_from_output")
    /\ UNCHANGED <<fileVars, keyVars, reqVars, pipeVars, proxyVars>>

StoreClearState ==
    /\ ClearState
    /\ Op("clear_state")
    /\ UNCHANGED <<fileVars, keyVars, reqVars, pipeVars, proxyVars>>

InitStore ==
    /\ InitStoreEmpty
    /\ format \in Formats
    /\ \E out \in StorePriorOutputs(format) :
           /\ companies_files = out.companies
           /\ domains_files = out.domains
           /\ emails_files = out.emails
    /\ lastOp = "init"
    /\ prevOp = "init"
    /\ ret = FALSE
    /\ inA = NoInput
    /\ inB = NoInput
    /\ InitNoProxy
    /\ InitNoPipe

NextStore ==
    \/ StoreAddSeenCompany
    \/ StoreAddSeenDomain
    \/ StoreAddSeenEmail
    \/ StoreIsSeenCompany
    \/ StoreIsSeenDomain
    \/ StoreIsSeenEmail
    \/ StoreSaveState
    \/ StoreLoadFromOutput
    \/ StoreClearState

SpecStore == InitStore /\ [][NextStore]_vars

(***************************************************************************)
(* SpecKey: key normalisation. Two inputs of one kind are drawn; the first *)
(* is marked seen (any number of times) on a new store and the second is   *)
(* looked up.                                                              *)
(***************************************************************************)
MaxStr == 2

KeyAlphabet == {"a", "A", " "}

StrUpTo(n) == UNION {[1..k -> KeyAlphabet] : k \in 0..n}

KeyStrings == StrUpTo(MaxStr)

KeyUrls == {None, <<"u">>, <<"U", " ">>}

KeyAddresses == {None, <<"X">>}

\* the first company, and the second with its provider id, phone and domain
KeyCompaniesA ==
    {Company(<<"1">>, n, u, a, None) : n \in KeyStrings, u \in KeyUrls, a \in KeyAddresses}

KeyCompaniesB ==
    {[c EXCEPT !.id = o[1], !.phone = o[2], !.domain = o[3]] :
        c \in KeyCompaniesA,
        o \in {<<<<"1">>, None, None>>, <<<<"2">>, <<"5">>, <<"d">>>>}}

KeyAddSeenCompany ==
    /\ inA.kind = "company"
    /\ seen_companies' = add_seen_company(seen_companies, inA.v)
    /\ Op("add_seen_company")
    /\ UNCHANGED <<seen_domains, seen_emails, state_file, fileVars, keyVars, reqVars, pipeVars, proxyVars>>

KeyAddSeenDomain ==
    /\ inA.kind = "domain"
    /\ seen_domains' = add_seen_domain(seen_domains, inA.v)
    /\ Op("add_seen_domain")
    /\ UNCHANGED <<seen_companies, seen_emails, state_file, fileVars, keyVars, reqVars, pipeVars, proxyVars>>

KeyAddSeenEmail ==
    /\ inA.kind = "email"
    /\ seen_emails' = add_seen_email(seen_emails, inA.v)
    /\ Op("add_seen_email")
    /\ UNCHANGED <<seen_companies, seen_domains, state_file, fileVars, keyVars, reqVars, pipeVars, proxyVars>>

KeyIsSeenCompany ==
    /\ inB.kind = "company"
    /\ Query("is_seen_company", is_seen_company(seen_companies, inB.v))
    /\ UNCHANGED <<storeVars, fileVars, keyVars, reqVars, pipeVars, proxyVars>>

KeyIsSeenDomain ==
    /\ inB.kind = "domain"
    /\ Query("is_seen_domain", is_seen_domain(seen_domains, inB.v))
    /\ UNCHANGED <<storeVars, fileVars, keyVars, reqVars, pipeVars, proxyVars>>

KeyIsSeenEmail ==
    /\ inB.kind = "email"
    /\ Query("is_seen_email", is_seen_email(seen_emails, inB.v))
    /\ UNCHANGED <<storeVars, fileVars, keyVars, reqVars, pipeVars, proxyVars>>

InitKey ==
    /\ InitStoreEmpty
    /\ format = "csv"
    /\ companies_files = NoFiles(Formats)
    /\ domains_files = NoFiles(DomainExts)
    /\ emails_files = NoFiles(Formats)
    /\ lastOp = "init"
    /\ prevOp = "init"
    /\ ret = FALSE
    /\ \/ /\ inA \in {[kind |-> "company", v |-> c] : c \in KeyCompaniesA}
          /\ inB \in {[kind |-> "company", v |-> c] : c \in KeyCompaniesB}
       \/ /\ inA \in {[kind |-> k, v |-> x] : k \in {"domain", "email"}, x \in KeyStrings}
          /\ inB \in {[kind |-> inA.kind, v |-> x] : x \in KeyStrings}
    /\ InitNoProxy
    /\ InitNoPipe

NextKey ==
    \/ KeyAddSeenCompany
    \/ KeyAddSeenDomain
    \/ KeyAddSeenEmail
    \/ KeyIsSeenCompany
    \/ KeyIsSeenDomain
    \/ KeyIsSeenEmail

SpecKey == InitKey /\ [][NextKey]_vars

(***************************************************************************)
(* DomainResolver (utils/domain.py)                                        *)
(***************************************************************************)
Letters == Range(LowerLetters) \cup Range(UpperLetters)

Digits == {"0", "1", "2", "3", "4", "5", "6", "7", "8", "9"}

PROVIDER_DOMAINS ==
    {<<"y", "e", "l", "p", ".", "c", "o", "m">>,
     <<"w", "w", "w", ".", "y", "e", "l", "p", ".", "c", "o", "m">>,
     <<"g", "o", "o", "g", "l", "e", ".", "c", "o", "m">>,
     <<"w", "w", "w", ".", "g", "o", "o", "g", "l", "e", ".", "c", "o", "m">>,
     <<"m", "a", "p", "s", ".", "g", "o", "o", "g", "l", "e", ".", "c", "o", "m">>,
     <<"f", "a", "c", "e", "b", "o", "o", "k", ".", "c", "o", "m">>,
     <<"w", "w", "w", ".", "f", "a", "c", "e", "b", "o", "o", "k", ".", "c", "o", "m">>,
     <<"m", ".", "f", "a", "c", "e", "b", "o", "o", "k", ".", "c", "o", "m">>,
     <<"i", "n", "s", "t", "a", "g", "r", "a", "m", ".", "c", "o", "m">>,
     <<"w", "w", "w", ".", "i", "n", "s", "t", "a", "g", "r", "a", "m", ".", "c", "o", "m">>,
     <<"t", "w", "i", "t", "t", "e", "r", ".", "c", "o", "m">>,
     <<"w", "w", "w", ".", "t", "w", "i", "t", "t", "e", "r", ".", "c", "o", "m">>,
     <<"x", ".", "c", "o", "m">>,
     <<"l", "i", "n", "k", "e", "d", "i", "n", ".", "c", "o", "m">>,
     <<"w", "w", "w", ".", "l", "i", "n", "k", "e", "d", "i", "n", ".", "c", "o", "m">>,
     <<"f", "o", "u", "r", "s", "q", "u", "a", "r", "e", ".", "c", "o", "m">>,
     <<"w", "w", "w", ".", "f", "o", "u", "r", "s", "q", "u", "a", "r", "e", ".", "c", "o", "m">>,
     <<"y", "e", "l", "l", "o", "w", "p", "a", "g", "e", "s", ".", "c", "o", "m">>,
     <<"w", "w", "w", ".", "y", "e", "l", "l", "o", "w", "p", "a", "g", "e", "s", ".", "c", "o", "m">>}

\* the substrings that mark a listing or social host
ProviderWords == {<<"y", "e", "l", "p">>, <<"g", "o", "o", "g", "l", "e">>, <<"f", "a", "c", "e", "b", "o", "o", "k">>, <<"i", "n", "s", "t", "a", "g", "r", "a", "m">>}

excluded_patterns ==
    {<<"g", "m", "a", "i", "l", ".", "c", "o", "m">>,
     <<"y", "a", "h", "o", "o", ".", "c", "o", "m">>,
     <<"h", "o", "t", "m", "a", "i", "l", ".", "c", "o", "m">>,
     <<"o", "u", "t", "l", "o", "o", "k", ".", "c", "o", "m">>,
     <<"a", "o", "l", ".", "c", "o", "m">>,
     <<"i", "c", "l", "o", "u", "d", ".", "c", "o", "m">>,
     <<"l", "i", "v", "e", ".", "c", "o", "m">>,
     <<"m", "s", "n", ".", "c", "o", "m">>}

Www == <<"w", "w", "w", ".">>

\* domain[4:] when the domain starts with "www."
DropWww(d) == IF StartsWith(d, Www) THEN SubSeq(d, 5, Len(d)) ELSE d

\* urlparse(url).netloc of a url that starts with "http://" or "https://":
\* what stands between the "//" and the next "/", "?" or "#"
Netloc(url) ==
    LET from == (CHOOSE i \in 1..Len(url) : SubSeq(url, i, i + 1) = <<"/", "/">>) + 2
        ends == {i \in from..Len(url) : url[i] \in {"/", "?", "#"}}
    IN  SubSeq(url, from, IF ends = {} THEN Len(url) ELSE SetMin(ends) - 1)

\* DomainResolver._clean_and_extract_domain
_clean_and_extract_domain(url) ==
    LET full == IF StartsWith(url, <<"/", "/">>) THEN <<"h", "t", "t", "p", "s", ":">> \o url
                ELSE IF StartsWith(url, <<"h", "t", "t", "p", ":", "/", "/">>) \/ StartsWith(url, <<"h", "t", "t", "p", "s", ":", "/", "/">>) THEN url
                ELSE <<"h", "t", "t", "p", "s", ":", "/", "/">> \o url
        domain == DropWww(Lower(Netloc(full)))
    IN  IF ~StartsWith(url, <<"/", "/">>) /\ StartsWith(url, <<"/">>) THEN None
        ELSE IF domain = Empty THEN None
        ELSE domain

\* DomainResolver._is_provider_domain
_is_provider_domain(domain) ==
    \/ domain \in {Empty, None}
    \/ LET d == DropWww(Lower(domain))
       IN  d \in PROVIDER_DOMAINS \/ \E w \in ProviderWords : Contains(d, w)

\* re.match(r"^[a-zA-Z0-9][a-zA-Z0-9-]*[a-zA-Z0-9]*\.[a-zA-Z]{2,}$", domain):
\* one label that starts with a letter or digit, one dot, two or more letters
\* ($ also matches before one trailing newline)
MatchesHostShape(domain) ==
    \E k \in 2..Len(domain) :
        /\ domain[k] = "."
        /\ domain[1] \in Letters \cup Digits
        /\ \A i \in 1..(k - 1) : domain[i] \in Letters \cup Digits \cup {"-"}
        /\ \E e \in {Len(domain), Len(domain) - 1} :
               /\ e - k >= 2
               /\ \A i \in (k + 1)..e : domain[i] \in Letters
               /\ e < Len(domain) => domain[Len(domain)] = "\n"

\* _is_valid_business_domain from its second statement on (domain.py:87-109)
ValidBusinessDomainRest(domain) ==
    /\ domain # None
    /\ ~_is_provider_domain(domain)
    /\ MatchesHostShape(domain)
    /\ ~\E p \in excluded_patterns : Contains(Lower(domain), p)

\* a slip: the first statement is left out, a str is judged by the rest
_is_valid_business_domain_of_str(domain) == ValidBusinessDomainRest(domain)

\* DomainResolver._is_valid_business_domain: the first statement returns False
\* for every str
_is_valid_business_domain(domain) ==
    IF IsStr(domain) THEN FALSE ELSE ValidBusinessDomainRest(domain)

\* ---- DomainResolver's classifications applied to given host names
DomainPrefixes == {<<>>, <<"m", ".">>, Www}

DomainNames ==
    {<<>>, <<"x">>, <<"e", "x", "a", "m", "p", "l", "e">>, <<"g", "m", "a", "i", "l">>,
     <<"f", "a", "c", "e", "b", "o", "o", "k">>}

DomainTlds == {<<>>, <<".", "c">>, <<".", "c", "o", "m">>}

\* the host names handed to the resolver, "" among them, and None
DomainInputs ==
    {pre \o n \o t : pre \in DomainPrefixes, n \in DomainNames, t \in DomainTlds}
        \cup {None}

\* resolver._is_valid_business_domain(domain)
DomainIsValid ==
    /\ inA.kind = "host"
    /\ Query("_is_valid_business_domain", _is_valid_business_domain(inA.v))
    /\ UNCHANGED <<storeVars, fileVars, keyVars, reqVars, pipeVars, proxyVars>>

\* resolver._is_provider_domain(domain)
DomainIsProvider ==
    /\ inA.kind = "host"
    /\ Query("_is_provider_domain", _is_provider_domain(inA.v))
    /\ UNCHANGED <<storeVars, fileVars, keyVars, reqVars, pipeVars, proxyVars>>

InitDomain ==
    /\ InitStoreEmpty
    /\ format = "csv"
    /\ companies_files = NoFiles(Formats)
    /\ domains_files = NoFiles(DomainExts)
    /\ emails_files = NoFiles(Formats)
    /\ lastOp = "init"
    /\ prevOp = "init"
    /\ ret = FALSE
    /\ inA \in {[kind |-> "host", v |-> d] : d \in DomainInputs}
    /\ inB = NoInput
    /\ InitNoProxy
    /\ InitNoPipe

NextDomain ==
    \/ DomainIsValid
    \/ DomainIsProvider

SpecDomain == InitDomain /\ [][NextDomain]_vars

(***************************************************************************)
(* The pipeline: cli/main.py drives LeadOrchestrator with a StateStore;     *)
(* LeadOrchestrator(config) on its own runs without one. A step is one call *)
(* to a provider or finder together with the code that handles its outcome. *)
(***************************************************************************)
MaxRuns == 2

MaxProviders == 1

MaxQueries == 1

MaxDomainFinders == 2

MaxFinders == 1

\* what the providers and finders can answer
PipeC1 == Company(<<"1">>, <<"A">>, <<"u">>, None, None)

PipeC1b == Company(<<"3">>, <<"a", " ">>, <<"u">>, None, None)

PipeC2 == Company(<<"2">>, <<"B">>, None, None, None)

SearchReturns == {<<PipeC1>>, <<PipeC1, PipeC2>>, <<PipeC1b, PipeC2>>}

PipeD1 == <<"a", ".", "c", "o">>

PipeD2 == <<"b", ".", "c", "o">>

BareStrings == {<<"A", ".", "c", "o">>}

PipeK1 == Contact(<<"n">>, <<"E", "@", "a">>)

Payloads ==
    {[domain |-> PipeD1, contacts |-> <<PipeK1>>],
     [domain |-> PipeD2, contacts |-> <<>>]}

FindEmailReturns(domain, finder) ==
    {EmailResult(domain, <<PipeK1>>, finder, TRUE, None),
     EmailResult(domain, <<>>, finder, TRUE, None),
     EmailResult(domain, <<>>, finder, FALSE, <<"e", "r", "r">>)}

\* the key under which an instance is registered: name, or name_i when the
\* configuration holds several keys for it
InstanceName(n, i) ==
    IF n > 1 THEN <<"hunter_1", "hunter_2", "hunter_3", "hunter_4">>[i] ELSE "hunter"

\* the i-th line of queries.txt
QueryText(i) == <<"q", <<"1", "2", "3", "4">>[i]>>

Call(op, by, about, out, value, n) ==
    [op |-> op, by |-> by, about |-> about, out |-> out, value |-> value, n |-> n]

\* the enumerations of a set: the orders in which a loop can meet its elements
Enumerations(S) == {q \in [1..Cardinality(S) -> S] : Range(q) = S}

\* check_output_safety: some output file exists and is not empty
ExistingFiles ==
    \/ \E x \in Formats : companies_files[x].rows # <<>> \/ emails_files[x].rows # <<>>
    \/ \E x \in DomainExts : domains_files[x].rows # <<>>

configVars == <<n_providers, n_queries, n_domain_finders, n_finders>>

\* LeadOrchestrator.__init__
NewOrchestrator ==
    /\ companies' = <<>>
    /\ domains' = {}
    /\ email_results' = <<>>
    /\ all_companies' = <<>>
    /\ pq' = 0
    /\ ci' = 1
    /\ fi' = 1
    /\ result' = [bound |-> FALSE, value |-> EmailResult(Empty, <<>>, "", FALSE, None)]
    /\ ek' = 0
    /\ log' = <<>>
    /\ searched' = FALSE

\* a slip: the domains already seen are not filtered out
EnterEmailDiscoveryUnfiltered(store, doms, sd) ==
    /\ entered' = TRUE
    /\ IF n_finders = 0 \/ doms = {}
       THEN /\ pc' = "returned"
            /\ domains_to_process' = <<>>
       ELSE \E order \in Enumerations(doms) :
                /\ domains_to_process' = order
                /\ pc' = IF order = <<>> THEN "returned" ELSE "email"

\* run_email_discovery up to its loops, over the domains doms and the seen
\* domains sd: nothing to do without finders or domains; else the domains not
\* yet seen (all of them without a store), in the order the set yields them
EnterEmailDiscovery(store, doms, sd) ==
    /\ entered' = TRUE
    /\ IF n_finders = 0 \/ doms = {}
       THEN /\ pc' = "returned"
            /\ domains_to_process' = <<>>
       ELSE \E order \in Enumerations(IF store THEN {d \in doms : ~is_seen_domain(sd, d)}
                                      ELSE doms) :
                /\ domains_to_process' = order
                /\ pc' = IF order = <<>> THEN "returned" ELSE "email"

\* a slip: the search phase is entered whatever run_email_finder_alone says
EnterPipelineIgnoresAlone ==
    /\ pc' = "search"
    /\ domains_to_process' = <<>>
    /\ entered' = FALSE

\* run_full_pipeline up to the first call it makes
EnterPipeline ==
    IF alone' THEN EnterEmailDiscovery(state_store', {}, seen_domains')
    ELSE /\ pc' = "search"
         /\ domains_to_process' = <<>>
         /\ entered' = FALSE

\* main() up to run_full_pipeline: a fresh run over existing output clears the
\* store and deletes the output files, every other run loads the store
StartMain ==
    /\ pc = "boot"
    /\ run < MaxRuns
    /\ run' = run + 1
    /\ state_store' = TRUE
    /\ alone' \in BOOLEAN
    /\ fresh' \in BOOLEAN
    /\ IF fresh' /\ ExistingFiles
           THEN /\ ClearState
                /\ companies_files' = NoFiles(Formats)
                /\ domains_files' = NoFiles(DomainExts)
                /\ emails_files' = NoFiles(Formats)
                /\ fresh_cleared' = TRUE
                /\ prev_searched' = FALSE
                /\ UNCHANGED <<format, prev_candidates>>
           ELSE /\ LoadFromOutput
                /\ fresh_cleared' = FALSE
                /\ UNCHANGED <<fileVars, prev_candidates, prev_searched>>
    /\ NewOrchestrator
    /\ EnterPipeline
    /\ UNCHANGED <<configVars, opVars, keyVars, reqVars, proxyVars>>

\* LeadOrchestrator(config).run_full_pipeline(): no state store
StartAlone ==
    /\ pc = "boot"
    /\ run < MaxRuns
    /\ run' = run + 1
    /\ state_store' = FALSE
    /\ fresh_cleared' = FALSE
    /\ fresh' = FALSE
    /\ alone' \in BOOLEAN
    /\ NewOrchestrator
    /\ EnterPipeline
    /\ UNCHANGED <<storeVars, fileVars, configVars, prev_candidates, prev_searched,
                   opVars, keyVars, reqVars, proxyVars>>

\* the process ends, by exit or by a crash: its memory is gone, the files stay
ProcessEnds ==
    /\ pc # "boot"
    /\ run < MaxRuns
    /\ pc' = "boot"
    /\ seen_companies' = {}
    /\ seen_domains' = {}
    /\ seen_emails' = {}
    /\ NewOrchestrator
    /\ domains_to_process' = <<>>
    /\ entered' = FALSE
    /\ state_store' = FALSE
    /\ fresh_cleared' = FALSE
    /\ fresh' = FALSE
    /\ alone' = FALSE
    /\ prev_candidates' = IF searched THEN all_companies ELSE prev_candidates
    /\ prev_searched' = (searched \/ prev_searched)
    /\ UNCHANGED <<state_file, fileVars, run, configVars, opVars, keyVars, reqVars, proxyVars>>

\* run_provider_search without providers or without queries: it returns at once
SearchSkipped ==
    /\ pc = "search"
    /\ n_providers = 0 \/ n_queries = 0
    /\ pc' = "domain"
    /\ UNCHANGED <<storeVars, fileVars, run, state_store, fresh_cleared, fresh, alone, configVars,
                   companies, domains, email_results, all_companies, pq, ci, fi, result,
                   domains_to_process, entered, ek, log, searched, prev_candidates, prev_searched,
                   opVars, keyVars, reqVars, proxyVars>>

\* a slip: the inner loop meets the first query every time
PairQueryFirst(k, nq) == 1

\* for query in self.config.queries, inside the loop over the providers: the
\* query of the k-th pair (counted from 0) when there are nq queries
PairQuery(k, nq) == (k % nq) + 1

\* one provider.search(query, proxy) of the loops, provider-major: a
\* ProviderError or any other exception skips the query, a returned list
\* extends all_companies
SearchCall ==
    /\ pc = "search"
    /\ n_providers > 0 /\ n_queries > 0
    /\ pq < n_providers * n_queries
    /\ pq' = pq + 1
    /\ LET by == (pq \div n_queries) + 1
           about == QueryText(PairQuery(pq, n_queries))
       IN  \/ \E e \in {"ProviderError", "Exception"} :
                  /\ log' = Append(log, Call("search", by, about, e, Empty, 0))
                  /\ UNCHANGED all_companies
           \/ \E found \in SearchReturns :
                  /\ log' = Append(log, Call("search", by, about, "ok", found, Len(found)))
                  /\ all_companies' = all_companies \o found
    /\ UNCHANGED <<storeVars, fileVars, pc, run, state_store, fresh_cleared, fresh, alone,
                   configVars, companies, domains, email_results, ci, fi, result,
                   domains_to_process, entered, ek, searched, prev_candidates, prev_searched,
                   opVars, keyVars, reqVars, proxyVars>>

\* the filter loop of run_provider_search over the candidates cands, from the
\* seen keys sc: [new, seen]
RECURSIVE FilterNew(_, _)
FilterNew(cands, sc) ==
    IF cands = <<>> THEN [new |-> <<>>, seen |-> sc]
    ELSE LET c == Head(cands)
         IN  IF is_seen_company(sc, c) THEN FilterNew(Tail(cands), sc)
             ELSE LET rest == FilterNew(Tail(cands), add_seen_company(sc, c))
                  IN  [new |-> <<c>> \o rest.new, seen |-> rest.seen]

\* ConfigLoader()._load_companies("companies.txt") raises ConfigurationError:
\* output/companies.txt is missing or has no line
OldCompaniesRaises == companies_files["txt"].rows = <<>>

\* company.name in old_companies: the lines of companies.txt are the JSON
\* objects _save_txt wrote, so only a name that is such a text can be among them
NameInOldCompanies(name) == StartsWith(name, <<"{">>) /\ ~OldCompaniesRaises

\* run_provider_search after its loops: filter the candidates through the
\* store and save the state; without a store, filter them by the names in
\* output/companies.txt
SearchFilter ==
    /\ pc = "search"
    /\ n_providers > 0 /\ n_queries > 0
    /\ pq = n_providers * n_queries
    /\ IF state_store
       THEN LET f == FilterNew(all_companies, seen_companies)
            IN  /\ companies' = f.new
                /\ seen_companies' = f.seen
                /\ state_file' = SnapshotOf(f.seen, seen_domains, seen_emails)
                /\ pc' = "domain"
                /\ searched' = TRUE
                /\ UNCHANGED <<seen_domains, seen_emails>>
       ELSE /\ IF OldCompaniesRaises
               THEN /\ pc' = "raised"
                    /\ UNCHANGED companies
               ELSE /\ pc' = "domain"
                    /\ companies' = SelectSeq(all_companies,
                                              LAMBDA c : ~NameInOldCompanies(c.name))
            /\ UNCHANGED <<storeVars, searched>>
    /\ UNCHANGED <<fileVars, run, state_store, fresh_cleared, fresh, alone, configVars, domains,
                   email_results, all_companies, pq, ci, fi, result, domains_to_process, entered,
                   ek, log, prev_candidates, prev_searched, opVars, keyVars, reqVars, proxyVars>>

\* the contacts' addresses marked seen, those that are not empty
RECURSIVE AddContactEmails(_, _)
AddContactEmails(se, contacts) ==
    IF contacts = <<>> THEN se
    ELSE AddContactEmails(IF Head(contacts).email \in {None, Empty} THEN se
                          ELSE add_seen_email(se, Head(contacts).email),
                          Tail(contacts))

\* a slip: a finder that fails ends the work on its company
DomainAdvanceNextCompany(found_result) ==
    /\ ci' = ci + 1
    /\ fi' = 1

\* the loops of run_domain_discovery move on: to the next company once a finder
\* gave a result or the finders are used up, else to the next finder
DomainAdvance(found_result) ==
    IF found_result \/ fi = n_domain_finders
    THEN /\ ci' = ci + 1
         /\ fi' = 1
    ELSE /\ fi' = fi + 1
         /\ UNCHANGED ci

\* the finder raised, or the handling of what it returned did: logged, next finder
DomainFinderFailed ==
    /\ DomainAdvance(FALSE)
    /\ UNCHANGED <<storeVars, companies, domains, email_results, result>>

\* res is a non-empty str
DomainBareString(s) ==
    LET domain == _clean_and_extract_domain(s)
    IN  IF domain # None /\ _is_valid_business_domain(domain)
        THEN /\ IF state_store /\ is_seen_domain(seen_domains, domain)
                THEN UNCHANGED <<companies, domains, seen_domains>>
                ELSE /\ companies' = [companies EXCEPT ![ci].domain = domain]
                     /\ domains' = domains \cup {domain}
                     /\ seen_domains' = IF state_store THEN add_seen_domain(seen_domains, domain)
                                        ELSE seen_domains
             /\ DomainAdvance(TRUE)
             /\ UNCHANGED <<seen_companies, seen_emails, state_file, email_results, result>>
        ELSE /\ DomainAdvance(FALSE)
             /\ UNCHANGED <<storeVars, companies, domains, email_results, result>>

\* res is anything else; a payload p gives its domain and its parsed contacts
DomainPayload(p, name) ==
    LET domain == p.domain
        fresh_result == EmailResult(domain, p.contacts, name, TRUE, None)
    IN  IF ~state_store
        THEN /\ result' = [bound |-> TRUE, value |-> fresh_result]
             /\ domains' = domains \cup {domain}
             /\ DomainAdvance(TRUE)
             /\ UNCHANGED <<storeVars, companies, email_results>>
        ELSE IF domain = None
        THEN DomainFinderFailed
        ELSE IF is_seen_domain(seen_domains, domain)
        THEN /\ seen_domains' = IF domain # Empty THEN add_seen_domain(seen_domains, domain)
                                ELSE seen_domains
             /\ IF domain # Empty /\ ~result.bound
                THEN /\ DomainAdvance(FALSE)
                     /\ UNCHANGED email_results
                ELSE /\ DomainAdvance(TRUE)
                     /\ email_results' = IF domain # Empty
                                         THEN Append(email_results, result.value)
                                         ELSE email_results
             /\ UNCHANGED <<seen_companies, seen_emails, state_file, companies, domains, result>>
        ELSE /\ result' = [bound |-> TRUE, value |-> fresh_result]
             /\ domains' = domains \cup {domain}
             /\ seen_domains' = add_seen_domain(seen_domains, domain)
             /\ seen_emails' = AddContactEmails(seen_emails, p.contacts)
             /\ email_results' = IF domain # Empty THEN Append(email_results, fresh_result)
                                 ELSE email_results
             /\ DomainAdvance(TRUE)
             /\ UNCHANGED <<seen_companies, state_file, companies>>

\* one domain_finder.find(company, proxy) of run_domain_discovery and the
\* handling of what it gives: an exception, None, a str, or a payload
DomainCall ==
    /\ pc = "domain"
    /\ n_domain_finders > 0
    /\ ci <= Len(companies)
    /\ LET id == companies[ci].id
           name == InstanceName(n_domain_finders, fi)
       IN  \/ /\ log' = Append(log, Call("find", fi, id, "raise", Empty, 0))
              /\ DomainFinderFailed
           \/ /\ log' = Append(log, Call("find", fi, id, "none", Empty, 0))
              /\ DomainFinderFailed
           \/ \E s \in BareStrings :
                  /\ log' = Append(log, Call("find", fi, id, "bare", s, 0))
                  /\ DomainBareString(s)
           \/ \E p \in Payloads :
                  /\ log' = Append(log, Call("find", fi, id, "payload", p.domain,
                                             Len(p.contacts)))
                  /\ DomainPayload(p, name)
    /\ UNCHANGED <<fileVars, pc, run, state_store, fresh_cleared, fresh, alone, configVars,
                   all_companies, pq, domains_to_process, entered, ek, searched, prev_candidates,
                   prev_searched, opVars, keyVars, reqVars, proxyVars>>

\* a slip: run_email_discovery is entered whatever email_results holds
DomainDoneAlwaysEnters ==
    /\ pc = "domain"
    /\ n_domain_finders = 0 \/ ci > Len(companies)
    /\ EnterEmailDiscovery(state_store, domains, seen_domains)
    /\ UNCHANGED <<storeVars, fileVars, run, state_store, fresh_cleared, fresh, alone, configVars,
                   companies, domains, email_results, all_companies, pq, ci, fi, result,
                   ek, log, searched, prev_candidates, prev_searched, opVars, keyVars, reqVars,
                   proxyVars>>

\* run_domain_discovery is through; run_full_pipeline enters
\* run_email_discovery only if there is no email result yet
DomainDone ==
    /\ pc = "domain"
    /\ n_domain_finders = 0 \/ ci > Len(companies)
    /\ IF email_results = <<>>
       THEN EnterEmailDiscovery(state_store, domains, seen_domains)
       ELSE /\ pc' = "returned"
            /\ UNCHANGED <<domains_to_process, entered>>
    /\ UNCHANGED <<storeVars, fileVars, run, state_store, fresh_cleared, fresh, alone, configVars,
                   companies, domains, email_results, all_companies, pq, ci, fi, result,
                   ek, log, searched, prev_candidates, prev_searched, opVars, keyVars, reqVars,
                   proxyVars>>

\* str(e) of the exception a finder raises
ExceptionText == <<"e", "x", "c">>

\* a slip: the result built for an exception counts as a success
FailedResultMarkedOk(domain, finder_name, text) ==
    EmailResult(domain, <<>>, finder_name, TRUE, text)

\* failed_result = EmailResult(domain, [], finder_name, False, str(e))
FailedResult(domain, finder_name, text) ==
    EmailResult(domain, <<>>, finder_name, FALSE, text)

\* one finder.find_email(domain, proxy) of run_email_discovery, finder-major:
\* the result is appended and its addresses marked seen; an exception gives a
\* failed result under the finder's key
EmailCall ==
    /\ pc = "email"
    /\ ek < n_finders * Len(domains_to_process)
    /\ ek' = ek + 1
    /\ pc' = IF ek + 1 = n_finders * Len(domains_to_process) THEN "returned" ELSE "email"
    /\ LET by == (ek \div Len(domains_to_process)) + 1
           domain == domains_to_process[(ek % Len(domains_to_process)) + 1]
       IN  \/ \E r \in FindEmailReturns(domain, "hunter") :
                  /\ log' = Append(log, Call("find_email", by, domain,
                                             IF r.success THEN "ok" ELSE "failed",
                                             Empty, Len(r.emails)))
                  /\ email_results' = Append(email_results, r)
                  /\ seen_emails' = IF r.success /\ r.emails # <<>> /\ state_store
                                    THEN AddContactEmails(seen_emails, r.emails)
                                    ELSE seen_emails
           \/ /\ log' = Append(log, Call("find_email", by, domain, "raise", Empty, 0))
              /\ email_results' =
                     Append(email_results,
                            FailedResult(domain, InstanceName(n_finders, by), ExceptionText))
              /\ UNCHANGED seen_emails
    /\ UNCHANGED <<seen_companies, seen_domains, state_file, fileVars, run, state_store,
                   fresh_cleared, fresh, alone, configVars, companies, domains, all_companies, pq,
                   ci, fi, result, domains_to_process, entered, searched, prev_candidates,
                   prev_searched, opVars, keyVars, reqVars, proxyVars>>

\* main() after run_full_pipeline returned: output_manager.save_results
MainSaveResults ==
    /\ pc = "returned"
    /\ state_store
    /\ SaveResults(companies, email_results, domains)
    /\ pc' = "saved"
    /\ UNCHANGED <<storeVars, run, state_store, fresh_cleared, fresh, alone, configVars, companies,
                   domains, email_results, all_companies, pq, ci, fi, result,
                   domains_to_process, entered, ek, log, searched, prev_candidates, prev_searched,
                   opVars, keyVars, reqVars, proxyVars>>

\* main(): the final state_store.save_state()
MainSaveState ==
    /\ pc = "saved"
    /\ SaveState
    /\ pc' = "exit"
    /\ UNCHANGED <<fileVars, run, state_store, fresh_cleared, fresh, alone, configVars, companies,
                   domains, email_results, all_companies, pq, ci, fi, result,
                   domains_to_process, entered, ek, log, searched, prev_candidates, prev_searched,
                   opVars, keyVars, reqVars, proxyVars>>

\* the configurations of the default runs
InitPipe ==
    /\ InitStoreEmpty
    /\ format \in Formats
    /\ companies_files = NoFiles(Formats)
    /\ domains_files = NoFiles(DomainExts)
    /\ emails_files = NoFiles(Formats)
    /\ lastOp = "init"
    /\ prevOp = "init"
    /\ ret = FALSE
    /\ inA = NoInput
    /\ inB = NoInput
    /\ InitNoProxy
    /\ pc = "boot"
    /\ run = 0
    /\ state_store = FALSE
    /\ fresh_cleared = FALSE
    /\ fresh = FALSE
    /\ alone = FALSE
    /\ n_providers \in 0..MaxProviders
    /\ n_queries \in 0..MaxQueries
    /\ n_domain_finders \in 0..MaxDomainFinders
    /\ n_finders \in 0..MaxFinders
    /\ companies = <<>>
    /\ domains = {}
    /\ email_results = <<>>
    /\ all_companies = <<>>
    /\ pq = 0
    /\ ci = 1
    /\ fi = 1
    /\ result = [bound |-> FALSE, value |-> EmailResult(Empty, <<>>, "", FALSE, None)]
    /\ domains_to_process = <<>>
    /\ entered = FALSE
    /\ ek = 0
    /\ log = <<>>
    /\ searched = FALSE
    /\ prev_candidates = <<>>
    /\ prev_searched = FALSE

Next ==
    \/ StartMain
    \/ StartAlone
    \/ ProcessEnds
    \/ SearchSkipped
    \/ SearchCall
    \/ SearchFilter
    \/ DomainCall
    \/ DomainDone
    \/ EmailCall
    \/ MainSaveResults
    \/ MainSaveState

Spec == InitPipe /\ [][Next]_vars

\* ---- run_provider_search on its own, over more providers and queries
MaxSearchProviders == 2

MaxSearchQueries == 2

\* the snapshots an earlier process can have left: none, or one holding
\* keys of companies it was given
SearchPriorSnapshots ==
    {NoStateFile} \cup
        {SnapshotOf({NormalizeCompanyKeyObj(c) : c \in cs}, {}, {}) :
            cs \in SUBSET {PipeC1, PipeC2} \ {{}}}

\* a process whose orchestrator has no domain finder and no email finder
InitSearch ==
    /\ seen_companies = {}
    /\ seen_domains = {}
    /\ seen_emails = {}
    /\ state_file \in SearchPriorSnapshots
    /\ format = "csv"
    /\ companies_files = NoFiles(Formats)
    /\ domains_files = NoFiles(DomainExts)
    /\ emails_files = NoFiles(Formats)
    /\ lastOp = "init"
    /\ prevOp = "init"
    /\ ret = FALSE
    /\ inA = NoInput
    /\ inB = NoInput
    /\ InitNoProxy
    /\ pc = "boot"
    /\ run = 0
    /\ state_store = FALSE
    /\ fresh_cleared = FALSE
    /\ fresh = FALSE
    /\ alone = FALSE
    /\ n_providers \in 0..MaxSearchProviders
    /\ n_queries \in 0..MaxSearchQueries
    /\ n_domain_finders = 0
    /\ n_finders = 0
    /\ companies = <<>>
    /\ domains = {}
    /\ email_results = <<>>
    /\ all_companies = <<>>
    /\ pq = 0
    /\ ci = 1
    /\ fi = 1
    /\ result = [bound |-> FALSE, value |-> EmailResult(Empty, <<>>, "", FALSE, None)]
    /\ domains_to_process = <<>>
    /\ entered = FALSE
    /\ ek = 0
    /\ log = <<>>
    /\ searched = FALSE
    /\ prev_candidates = <<>>
    /\ prev_searched = FALSE

NextSearch ==
    \/ StartMain
    \/ StartAlone
    \/ SearchSkipped
    \/ SearchCall
    \/ SearchFilter

SpecSearch == InitSearch /\ [][NextSearch]_vars

\* ---- run_email_discovery on its own, over more finders
MaxEmailFinders == 2

\* orchestrator.run_email_discovery() is called
EmailStart ==
    /\ pc = "boot"
    /\ EnterEmailDiscovery(state_store, domains, seen_domains)
    /\ UNCHANGED <<storeVars, fileVars, run, state_store, fresh_cleared, fresh, alone, configVars,
                   companies, domains, email_results, all_companies, pq, ci, fi, result,
                   ek, log, searched, prev_candidates, prev_searched, opVars, keyVars,
                   reqVars, proxyVars>>

\* an orchestrator that run_domain_discovery left with domains and without
\* email results: with a store every domain it holds is marked seen
InitEmail ==
    /\ state_store \in BOOLEAN
    /\ domains \in SUBSET {PipeD1, PipeD2}
    /\ seen_companies = {}
    /\ seen_domains = IF state_store THEN domains ELSE {}
    /\ seen_emails = {}
    /\ state_file = NoStateFile
    /\ format = "csv"
    /\ companies_files = NoFiles(Formats)
    /\ domains_files = NoFiles(DomainExts)
    /\ emails_files = NoFiles(Formats)
    /\ lastOp = "init"
    /\ prevOp = "init"
    /\ ret = FALSE
    /\ inA = NoInput
    /\ inB = NoInput
    /\ InitNoProxy
    /\ pc = "boot"
    /\ run = 1
    /\ fresh_cleared = FALSE
    /\ fresh = FALSE
    /\ alone = FALSE
    /\ n_providers = 0
    /\ n_queries = 0
    /\ n_domain_finders = 0
    /\ n_finders \in 0..MaxEmailFinders
    /\ companies = <<>>
    /\ email_results = <<>>
    /\ all_companies = <<>>
    /\ pq = 0
    /\ ci = 1
    /\ fi = 1
    /\ result = [bound |-> FALSE, value |-> EmailResult(Empty, <<>>, "", FALSE, None)]
    /\ domains_to_process = <<>>
    /\ entered = FALSE
    /\ ek = 0
    /\ log = <<>>
    /\ searched = FALSE
    /\ prev_candidates = <<>>
    /\ prev_searched = FALSE

NextEmail ==
    \/ EmailStart
    \/ EmailCall

SpecEmail == InitEmail /\ [][NextEmail]_vars

\* ---- one process of main from its start to its exit, Ctrl-C included
\* KeyboardInterrupt arrives inside a phase: run_full_pipeline logs it and
\* returns; the orchestrator's fields are as the phase left them. An interrupt
\* inside the filter loop of run_provider_search finds the keys of the first k
\* candidates already added to the store and self.companies not yet assigned.
Interrupt ==
    /\ pc \in {"search", "domain", "email"}
    /\ pc' = "returned"
    /\ log' = Append(log, Call("interrupt", 0, Empty, pc, Empty, 0))
    /\ IF pc = "search" /\ state_store /\ n_providers > 0 /\ n_queries > 0
          /\ pq = n_providers * n_queries
       THEN \E k \in 0..Len(all_companies) :
                seen_companies' = FilterNew(SubSeq(all_companies, 1, k), seen_companies).seen
       ELSE UNCHANGED seen_companies
    /\ UNCHANGED <<seen_domains, seen_emails, state_file, fileVars, run, state_store,
                   fresh_cleared, fresh, alone, configVars, companies, domains, email_results,
                   all_companies, pq, ci, fi, result, domains_to_process, entered, ek, searched,
                   prev_candidates, prev_searched, opVars, keyVars, reqVars, proxyVars>>

\* the statements of a process of main, which run one after the other; its
\* run_email_discovery has no domain to process (with a store every domain the
\* orchestrator holds is marked seen) and returns inside DomainDone
RunSteps ==
    \/ StartMain
    \/ SearchSkipped
    \/ SearchCall
    \/ SearchFilter
    \/ DomainCall
    \/ DomainDone
    \/ MainSaveResults
    \/ MainSaveState

NextRun ==
    \/ RunSteps
    \/ Interrupt

\* a process that is not killed executes its next statement
SpecRun == InitPipe /\ [][NextRun]_vars /\ WF_vars(RunSteps)

(***************************************************************************)
(* Claims about the store on its own (SpecStore)                           *)
(***************************************************************************)
SeenSetsKept ==
    /\ seen_companies \subseteq seen_companies'
    /\ seen_domains \subseteq seen_domains'
    /\ seen_emails \subseteq seen_emails'

SeenSetsEmpty == seen_companies = {} /\ seen_domains = {} /\ seen_emails = {}

\* C3 as claimed: over every StateStore operation other than clear_state
\* (load_from_output included) a key that is in a seen-set stays in it.
C3_KeysKeptExceptClear ==
    [][lastOp' # "clear_state" => SeenSetsKept]_vars

\* C3 as amended: a key that is in a seen-set stays in it over add_seen_*,
\* is_seen_*, save_state, and load_from_output when no snapshot file exists
\* (the sets are then only added to from the output files); clear_state, and
\* load_from_output reading an existing snapshot, which replaces the sets by
\* the snapshot's lists, are the operations that can remove keys.
C3_KeysKeptExceptClearAndSnapshotLoad ==
    [][(/\ lastOp' # "clear_state"
        /\ ~(lastOp' = "load_from_output" /\ state_file.exists))
       => SeenSetsKept]_vars

\* C3's case: a key that no output file holds was marked, and is still a member
\* after a load_from_output that read the output files
C3_Witness ==
    /\ lastOp = "load_from_output"
    /\ ~state_file.exists
    /\ <<"A">> \in seen_domains
    /\ domains_files["txt"].rows # <<>>

\* C4: save_state writes a snapshot that holds exactly the three current sets,
\* and a load_from_output that follows it leaves the three sets as they were.
C4_SnapshotRoundTrip ==
    [][/\ lastOp' = "save_state" =>
            /\ state_file'.exists
            /\ Range(state_file'.companies) = seen_companies'
            /\ Range(state_file'.domains) = seen_domains'
            /\ Range(state_file'.emails) = seen_emails'
       /\ (lastOp = "save_state" /\ lastOp' = "load_from_output") =>
            /\ seen_companies' = seen_companies
            /\ seen_domains' = seen_domains
            /\ seen_emails' = seen_emails]_vars

\* C4's case: a load that followed a save, with keys in all three sets, two of
\* them in one set
C4_Witness ==
    /\ prevOp = "save_state"
    /\ lastOp = "load_from_output"
    /\ seen_companies # {}
    /\ Cardinality(seen_domains) >= 2
    /\ seen_emails # {}

OutputHoldsNothing ==
    /\ \A x \in Formats : companies_files[x].rows = <<>> /\ emails_files[x].rows = <<>>
    /\ \A x \in DomainExts : domains_files[x].rows = <<>>

\* C8 as claimed: a load_from_output that follows clear_state leaves the three
\* sets empty and no snapshot file.
C8_ClearThenLoadEmpty ==
    [][(lastOp = "clear_state" /\ lastOp' = "load_from_output")
       => (SeenSetsEmpty' /\ ~state_file'.exists)]_vars

\* C8 as amended: after clear_state the sets are empty and no snapshot file
\* exists; a load_from_output that follows leaves no snapshot file, and leaves
\* the three sets empty when the output files hold no record (they do not after
\* a fresh run, which deletes them); records left in the output files are read
\* back into the sets.
C8_ClearThenLoadEmptyWithoutOutput ==
    [][/\ lastOp' = "clear_state" => (SeenSetsEmpty' /\ ~state_file'.exists)
       /\ (lastOp = "clear_state" /\ lastOp' = "load_from_output")
            => /\ ~state_file'.exists
               /\ OutputHoldsNothing => SeenSetsEmpty']_vars

\* C8's case: the snapshot existed, clear_state removed it, and the load that
\* followed found nothing in the output directory
C8_Witness ==
    /\ prevOp = "clear_state"
    /\ lastOp = "load_from_output"
    /\ OutputHoldsNothing
    /\ SeenSetsEmpty
    /\ ~state_file.exists

(***************************************************************************)
(* Claims about key normalisation (SpecKey)                                *)
(***************************************************************************)
\* a field lower-cased and trimmed, as the claims word it; an unset field is
\* equal only to an unset field
Folded(v) == IF v = None THEN None ELSE Lower(Strip(v))

SameFolded(c1, c2) ==
    /\ Folded(c1.name) = Folded(c2.name)
    /\ Folded(c1.address) = Folded(c2.address)
    /\ Folded(c1.url) = Folded(c2.url)

\* C6: after add_seen_company(C1), is_seen_company(C2) is true for every C2
\* whose name, address and url equal C1's after lower-casing and trimming,
\* whatever the two ids, phones and domains.
C6_SameFoldedCompanyIsSeen ==
    (/\ lastOp = "is_seen_company"
     /\ seen_companies # {}
     /\ SameFolded(inA.v, inB.v))
    => ret = TRUE

\* C6's case: the two companies differ in id, phone, domain and in the spelling
\* of the name, and the second is found seen
C6_Witness ==
    /\ lastOp = "is_seen_company"
    /\ seen_companies # {}
    /\ SameFolded(inA.v, inB.v)
    /\ inA.v.id # inB.v.id
    /\ inA.v.phone # inB.v.phone
    /\ inA.v.domain # inB.v.domain
    /\ inA.v.name # inB.v.name
    /\ inA.v.url # inB.v.url
    /\ ret = TRUE

\* C7: after add_seen_domain (add_seen_email) of a string, is_seen_domain
\* (is_seen_email) is true of every string that differs from it only in letter
\* case or surrounding whitespace; and marking a key again leaves the set as
\* after marking it once.
C7_CaseAndSpaceInsensitive ==
    /\ (/\ lastOp = "is_seen_domain"
        /\ seen_domains # {}
        /\ Folded(inA.v) = Folded(inB.v))
       => ret = TRUE
    /\ (/\ lastOp = "is_seen_email"
        /\ seen_emails # {}
        /\ Folded(inA.v) = Folded(inB.v))
       => ret = TRUE
    /\ inA.kind = "domain" => seen_domains \in {{}, add_seen_domain({}, inA.v)}
    /\ inA.kind = "email" => seen_emails \in {{}, add_seen_email({}, inA.v)}

(***************************************************************************)
(* Claims about proxy rotation (SpecProxy)                                 *)
(***************************************************************************)
\* the urls whose health check has failed on this manager: the lines that
\* _disable_proxy commented out
DisabledUrls == {proxies_file[i].url : i \in {j \in DOMAIN proxies_file : proxies_file[j].commented}}

PoolAtStart == [i \in DOMAIN proxies_file |-> proxies_file[i].url]

\* C9: with pool [P1, P2, P3] and test_interval = 2, the call that uses P1 for
\* the second time (the fourth call) health-checks it; if the check fails, that
\* call returns P2 (P2's own check passing), and no later call on the manager
\* returns P1, whatever later checks answer.
C9_FailedProxyNeverReturned ==
    (/\ Len(PoolAtStart) = 3
     /\ test_interval = 2
     /\ proxyPc = "idle"
     /\ ncalls >= 1
     /\ ProxyUrl(1) \in DisabledUrls)
    => /\ returned # NormalizeProxy(ProxyUrl(1))
       /\ ncalls >= 4
       /\ (ncalls = 4 /\ ProxyUrl(2) \notin DisabledUrls)
            => returned = NormalizeProxy(ProxyUrl(2))

\* C10: with no failed health check, the k-th completed call on a pool of n > 0
\* proxies returns the proxy at position (k-1) mod n; on an empty pool every
\* call returns nothing.
C10_RoundRobin ==
    (proxyPc = "idle" /\ ncalls >= 1 /\ DisabledUrls = {})
    => IF PoolAtStart = <<>>
       THEN returned = NoneProxy
       ELSE returned = NormalizeProxy(PoolAtStart[((ncalls - 1) % Len(PoolAtStart)) + 1])

\* C10's case: the rotation has wrapped around a pool of three twice, through
\* passed health checks, and is back at a socks5 proxy
C10_Witness ==
    /\ proxyPc = "idle"
    /\ DisabledUrls = {}
    /\ Len(PoolAtStart) = 3
    /\ test_interval = 2
    /\ ncalls = 5
    /\ returned = NormalizeProxy(ProxyUrl(2))
    /\ returned.http.scheme = "socks5h"

(***************************************************************************)
(* Claims about the pipeline (Spec)                                        *)
(***************************************************************************)
\* the calls of this process to the domain finders about the company with id
FindCalls(id) == SelectSeq(log, LAMBDA c : c.op = "find" /\ c.about = id)

FindEmailCalls == SelectSeq(log, LAMBDA c : c.op = "find_email")

\* a finder answered with a bare string that cleans to a well-formed business
\* host, on no deny-list, that the store had not seen
GotValidBareDomain(id) ==
    \E i \in DOMAIN FindCalls(id) :
        LET c == FindCalls(id)[i]
        IN  /\ c.out = "bare"
            /\ _clean_and_extract_domain(c.value) # None
            /\ ValidBusinessDomainRest(_clean_and_extract_domain(c.value))

\* every finder asked about the company raised or returned nothing
GotNothingUsable(id) ==
    /\ FindCalls(id) # <<>>
    /\ \A i \in DOMAIN FindCalls(id) : FindCalls(id)[i].out \in {"raise", "none"}

\* the first run of main over an empty directory, full pipeline: one provider
\* returned two new companies for one query, a domain finder gave a valid bare
\* domain for one of them and nothing usable for the other, and the one email
\* finder answers one contact whenever it is asked
C1_Scenario ==
    /\ state_store /\ ~alone /\ run = 1
    /\ n_providers = 1 /\ n_queries = 1 /\ n_domain_finders >= 1 /\ n_finders = 1
    /\ Len(all_companies) = 2
    /\ Len(companies) = 2
    /\ \E i \in 1..2 :
           /\ GotValidBareDomain(companies[i].id)
           /\ \A k \in DOMAIN FindCalls(companies[i].id) :
                  FindCalls(companies[i].id)[k].out = "bare"
           /\ GotNothingUsable(companies[3 - i].id)
    /\ \A k \in DOMAIN FindEmailCalls :
           FindEmailCalls[k].out = "ok" /\ FindEmailCalls[k].n = 1

\* C1: in a full run with a state store where one provider returns two new
\* companies for one query, the domain finder returns a valid unseen bare domain
\* for exactly one of them and nothing usable for the other, and one email
\* finder returns one contact for that domain, run_full_pipeline returns with
\* 2 companies, exactly 1 discovered domain for which find_email was invoked,
\* and 1 EmailResult that holds exactly 1 contact.
C1_EndToEnd ==
    (pc = "returned" /\ C1_Scenario) =>
        /\ Len(companies) = 2
        /\ Cardinality(domains) = 1
        /\ \E k \in DOMAIN FindEmailCalls : FindEmailCalls[k].about \in domains
        /\ Len(email_results) = 1
        /\ Len(email_results[1].emails) = 1

\* C2: when run_provider_search runs in a process that loaded the store
\* (load_from_output) which an earlier process saved after its own search, and
\* the providers return the same companies for the same queries as they did
\* then, no company is new: orchestrator.companies is empty after the phase.
C2_SecondSearchFindsNothingNew ==
    (state_store /\ ~fresh_cleared /\ searched /\ prev_searched
        /\ all_companies = prev_candidates) => companies = <<>>

C2_Witness ==
    /\ state_store /\ ~fresh_cleared /\ searched /\ prev_searched
    /\ run = 2
    /\ Len(all_companies) = 2
    /\ all_companies = prev_candidates
    /\ companies = <<>>

\* C5: after a completed run of main (save_results and the final save_state
\* done), rebuilding the seen sets from the output files alone, as
\* _load_from_files does for a store without snapshot, gives the sets the live
\* store holds, whatever the configured output format.
C5_RebuildEqualsLive ==
    pc = "exit" =>
        /\ LoadCompanies({}, companies_files, format) = seen_companies
        /\ LoadDomains({}, domains_files) = seen_domains
        /\ LoadEmails({}, emails_files, format) = seen_emails

(***************************************************************************)
(* Claims about ProxyManager.request, checked under SpecRequest.           *)
(***************************************************************************)
\* an HTTP error response that is not proxy-related: a status of 400 or more
\* other than 403, 407 and 429
IsOtherHttpError(o) ==
    o.kind = "response" /\ o.status >= 400 /\ o.status \notin {403, 407, 429}

\* C11: when requests.request answers with an error status other than 403,
\* 407 and 429, request makes no further attempt, leaves proxies.txt as it is
\* (the proxy used is not disabled) and raises an HTTP error, which is not a
\* ProxyError.
C11_HttpErrorEndsTheCall ==
    [][ /\ (sent' = sent + 1 /\ IsOtherHttpError(last_send'.o)) =>
              /\ reqPc' = "raised"
              /\ outcome' = [kind |-> "HTTPError", status |-> last_send'.o.status]
              /\ outcome'.kind # "ProxyError"
              /\ proxies_file' = proxies_file
        /\ (sent > 0 /\ IsOtherHttpError(last_send.o)) => sent' # sent + 1
      ]_vars

\* an error status came back on a later attempt that went through a proxy
C11_Witness ==
    /\ reqPc = "raised"
    /\ outcome.kind = "HTTPError"
    /\ sent >= 2
    /\ IsOtherHttpError(last_send.o)
    /\ last_send.proxy # NoneProxy

\* the failure kinds after which request goes on to its next attempt: 429,
\* 403/407, a proxy error, a connection error or timeout, any other exception
IsRetriedFailure(o) ==
    \/ o.kind = "response" /\ o.status \in {429, 403, 407}
    \/ o.kind \in {"requests.ProxyError", "ConnectTimeout", "ReadTimeout",
                   "ConnectionError", "Exception"}

\* C12: a call of request that has used all its max_attempts attempts, none
\* of them successful, has raised ProxyError, whatever the failure kinds of
\* the attempts were.
C12_ExhaustionRaisesProxyError ==
    ( /\ reqPc \in {"returned", "raised"}
      /\ sent = max_attempts
      /\ sent > 0 => IsRetriedFailure(last_send.o) )
        => (reqPc = "raised" /\ outcome.kind = "ProxyError")

ExampleCom == <<"e", "x", "a", "m", "p", "l", "e", ".", "c", "o", "m">>

MFacebookCom == <<"m", ".", "f", "a", "c", "e", "b", "o", "o", "k", ".", "c", "o", "m">>

GmailCom == <<"g", "m", "a", "i", "l", ".", "c", "o", "m">>

\* C14: _is_valid_business_domain answers true for a well-formed host name on
\* no deny-list ("example.com") and false for the empty string, for a host on
\* the provider deny-list ("m.facebook.com") and for a webmail host
\* ("gmail.com").
C14_ValidBusinessDomain ==
    lastOp = "_is_valid_business_domain" =>
        /\ inA.v = ExampleCom => ret = TRUE
        /\ inA.v \in {Empty, MFacebookCom, GmailCom} => ret = FALSE

(***************************************************************************)
(* Claims about the phases of LeadOrchestrator, checked under Spec.        *)
(***************************************************************************)
\* the positions of the calls of an operation in the log of the process
CallsOf(op) == {i \in DOMAIN log : log[i].op = op}

\* C15: in a process whose run_email_finder_alone is false every
\* provider.search call comes before every domain_finder.find call, and every
\* find call before every find_email call; in a process whose flag is true
\* there is no search call and no find call.
C15_PhaseOrder ==
    /\ ~alone =>
           /\ \A i \in CallsOf("search") : \A j \in CallsOf("find") : i < j
           /\ \A i \in CallsOf("search") \cup CallsOf("find") :
                  \A j \in CallsOf("find_email") : i < j
    /\ alone => CallsOf("search") \cup CallsOf("find") = {}

\* a process that went through all three phases and made calls in each
C15_Witness ==
    /\ ~alone
    /\ pc = "returned"
    /\ CallsOf("search") # {}
    /\ CallsOf("find") # {}
    /\ CallsOf("find_email") # {}

(***************************************************************************)
(* Claims about run_provider_search, checked under SpecSearch.             *)
(***************************************************************************)
\* the companies that the successful search calls of a log returned, in call
\* order
RECURSIVE ReturnedBySearches(_)
ReturnedBySearches(l) ==
    IF l = <<>> THEN <<>>
    ELSE IF Head(l).op = "search" /\ Head(l).out = "ok"
         THEN Head(l).value \o ReturnedBySearches(Tail(l))
         ELSE ReturnedBySearches(Tail(l))

\* the loops of run_provider_search are over
SearchLoopsDone == pc \in {"domain", "raised"} /\ n_providers > 0 /\ n_queries > 0

CallSeq(op) == SelectSeq(log, LAMBDA c : c.op = op)

\* run_domain_discovery has gone through all the companies
DomainPhaseDone ==
    /\ pc \in {"email", "returned", "saved", "exit"}
    /\ ~alone
    /\ n_domain_finders > 0

\* C17: a finder that raises does not end run_domain_discovery: the next
\* finder is asked about the same company, and every company after it gets
\* its finders asked, the first of them first.
C17_FinderFailureGoesOn ==
    LET finds == CallSeq("find")
    IN  /\ \A k \in DOMAIN finds :
               (finds[k].out = "raise" /\ finds[k].by < n_domain_finders) =>
                   IF k < Len(finds)
                   THEN /\ finds[k + 1].about = finds[k].about
                        /\ finds[k + 1].by = finds[k].by + 1
                   ELSE /\ pc = "domain"
                        /\ ci <= Len(companies)
                        /\ companies[ci].id = finds[k].about
                        /\ fi = finds[k].by + 1
        /\ DomainPhaseDone =>
               LET firsts == SelectSeq(finds, LAMBDA c : c.by = 1)
               IN  /\ Len(firsts) = Len(companies)
                   /\ \A i \in DOMAIN firsts : firsts[i].about = companies[i].id

\* both finders raised on the first company, and the second company got its
\* finders asked
C17_Witness ==
    LET finds == CallSeq("find")
    IN  /\ DomainPhaseDone
        /\ Len(companies) = 2
        /\ Len(finds) >= 3
        /\ finds[1].out = "raise" /\ finds[1].by = 1
        /\ finds[2].out = "raise" /\ finds[2].by = 2
        /\ finds[2].about = companies[1].id
        /\ finds[3].about = companies[2].id

(***************************************************************************)
(* Claims about run_email_discovery, checked under SpecEmail.              *)
(***************************************************************************)
\* C18: run_email_discovery appends exactly one EmailResult per (finder,
\* domain to process) pair, the pairs taken finder by finder and, within a
\* finder, domain by domain; for a find_email call that raised, the result
\* appended has success false, no emails and the exception's text as error;
\* the pairs after such a call are processed all the same.
C18_OneResultPerPair ==
    LET calls == CallSeq("find_email")
        nd == Len(domains_to_process)
    IN  /\ Len(email_results) = Len(calls)
        /\ \A k \in DOMAIN calls :
               /\ calls[k].by = ((k - 1) \div nd) + 1
               /\ calls[k].about = domains_to_process[((k - 1) % nd) + 1]
               /\ email_results[k].domain = calls[k].about
               /\ calls[k].out = "raise" =>
                      /\ email_results[k].success = FALSE
                      /\ email_results[k].emails = <<>>
                      /\ email_results[k].error = ExceptionText
        /\ pc = "returned" => Len(email_results) = n_finders * nd

\* two finders over two domains: the first call raised and the three pairs
\* after it were processed
C18_Witness ==
    /\ pc = "returned"
    /\ n_finders = 2
    /\ Len(domains_to_process) = 2
    /\ Len(email_results) = 4
    /\ CallSeq("find_email")[1].out = "raise"
    /\ email_results[4].success

(***************************************************************************)
(* Claims about the end of a process, checked under SpecRun.               *)
(***************************************************************************)
\* the snapshot on disk holds the seen-sets of the store in memory
SnapshotIsMemory ==
    /\ state_file.exists
    /\ Range(state_file.companies) = seen_companies
    /\ Range(state_file.domains) = seen_domains
    /\ Range(state_file.emails) = seen_emails

\* C19: once run_full_pipeline has returned in main (no exception escaped
\* it), the final save_state follows, and at the exit of the process the
\* snapshot on disk holds the seen-sets in memory; so also when the email
\* phase found nothing.
C19_FinalSaveState ==
    (pc = "returned" /\ state_store) ~> (pc = "exit" /\ SnapshotIsMemory)

\* a process of main at its exit that found companies and no email
C19_Witness ==
    /\ pc = "exit"
    /\ state_store
    /\ seen_companies # {}
    /\ email_results = <<>>
    /\ SnapshotIsMemory

\* KeyboardInterrupt arrived in this process
Interrupted == CallsOf("interrupt") # {}

\* C20: after a KeyboardInterrupt inside a phase run_full_pipeline has
\* returned, and what the process had gathered before it is in the
\* orchestrator's fields: every company that a finished search call returned
\* is in orchestrator.companies (the store of the process started empty, so
\* each of them is new).
C20_InterruptKeepsResults ==
    Interrupted =>
        /\ pc \in {"returned", "saved", "exit"}
        /\ \A c \in Range(ReturnedBySearches(log)) :
               \E d \in Range(companies) :
                   NormalizeCompanyKeyObj(d) = NormalizeCompanyKeyObj(c)

(***************************************************************************)
(* Claims about fresh and resume runs of main, checked under Spec.         *)
(***************************************************************************)
\* C21: a process of main started with the fresh selection hands its
\* orchestrator a store whose three seen-sets are empty, whether or not
\* output files exist; only a resume run starts with prior state loaded.
C21_FreshStartsEmpty ==
    [][ (pc = "boot" /\ pc' # "boot" /\ state_store' /\ fresh') =>
            /\ seen_companies' = {}
            /\ seen_domains' = {}
            /\ seen_emails' = {}
      ]_vars

(***************************************************************************)
(* Claims about the filter of run_provider_search, checked under           *)
(* SpecSearch.                                                             *)
(***************************************************************************)
\* the step in which run_provider_search, given a store, filters its
\* candidates and returns
SearchFilterStep ==
    /\ pc = "search" /\ pc' = "domain"
    /\ state_store
    /\ n_providers > 0 /\ n_queries > 0

\* C22: when run_provider_search returns with a store, self.companies holds
\* no two companies of the same normalized key, none whose key was seen
\* before the phase, and the key of every candidate of the phase is in
\* seen_companies.
C22_FilterDeduplicates ==
    [][ SearchFilterStep =>
            /\ \A i, j \in DOMAIN companies' :
                   NormalizeCompanyKeyObj(companies'[i]) =
                       NormalizeCompanyKeyObj(companies'[j]) => i = j
            /\ \A i \in DOMAIN companies' :
                   NormalizeCompanyKeyObj(companies'[i]) \notin seen_companies
            /\ \A i \in DOMAIN all_companies :
                   NormalizeCompanyKeyObj(all_companies[i]) \in seen_companies'
      ]_vars

\* the phase returned after two searches gave the same company under two
\* ids, next to a company seen before and one that is new
C22_Witness ==
    /\ pc = "domain"
    /\ state_store
    /\ PipeC1 \in Range(all_companies)
    /\ PipeC1b \in Range(all_companies)
    /\ PipeC2 \in Range(all_companies)
    /\ Len(companies) = 1
    /\ Cardinality(seen_companies) = 2

(***************************************************************************)
(* Claims about the snapshot saved by run_provider_search, checked under   *)
(* Spec.                                                                   *)
(***************************************************************************)
\* C23: once run_provider_search has run its loops and returned, the company
\* keys of the snapshot on disk are those of seen_companies in memory; and a
\* later process that resumes (whatever point the earlier one ended or
\* crashed at) selects none of the earlier candidates as new.
C23_SearchSnapshotSurvivesCrash ==
    /\ (state_store /\ searched) =>
           /\ state_file.exists
           /\ Range(state_file.companies) = seen_companies
    /\ (state_store /\ ~fresh /\ searched /\ prev_searched) =>
           \A c \in Range(prev_candidates) : \A d \in Range(companies) :
               NormalizeCompanyKeyObj(d) # NormalizeCompanyKeyObj(c)

\* a resumed process whose search brought an earlier candidate again and a
\* new company with it
C23_Witness ==
    /\ state_store /\ ~fresh /\ searched /\ prev_searched
    /\ run = 2
    /\ prev_candidates = <<PipeC1>>
    /\ all_companies = <<PipeC1, PipeC2>>
    /\ companies = <<PipeC2>>
    /\ Range(state_file.companies) = seen_companies

(***************************************************************************)
(* Claims about the results of run_domain_discovery, checked under Spec.   *)
(***************************************************************************)
\* a find call gave a usable result: a bare string that cleans to a
\* well-formed business host on no deny-list, or a payload with emails
UsableResult(c) ==
    \/ /\ c.out = "bare"
       /\ _clean_and_extract_domain(c.value) # None
       /\ ValidBusinessDomainRest(_clean_and_extract_domain(c.value))
    \/ c.out = "payload" /\ c.n > 0

\* C24: for each company the domain finders are asked in their configured
\* order, and after a finder gave a usable result (a valid bare domain, or a
\* payload with emails, its domain seen before or not) no further finder is
\* asked about that company.
C24_StopAtFirstUsable ==
    LET finds == CallSeq("find")
    IN  \A k \in DOMAIN finds :
            /\ (k = 1 \/ finds[k - 1].about # finds[k].about) => finds[k].by = 1
            /\ (k > 1 /\ finds[k - 1].about = finds[k].about) =>
                   finds[k].by = finds[k - 1].by + 1
            /\ (UsableResult(finds[k]) /\ k < Len(finds)) =>
                   finds[k + 1].about # finds[k].about

\* the step in which a domain finder answered with a bare string
BareFindStep ==
    /\ Len(log') = Len(log) + 1
    /\ log'[Len(log')].op = "find"
    /\ log'[Len(log')].out = "bare"

\* C25: when a domain finder returns a bare string whose cleaned host is a
\* valid business domain not yet seen, the company's domain becomes that host
\* and the host is in orchestrator.domains and in seen_domains; when the host
\* was already seen, neither the company nor orchestrator.domains changes.
C25_BareDomainRecorded ==
    [][ LET host == _clean_and_extract_domain(log'[Len(log')].value)
        IN  (BareFindStep /\ host # None /\ ValidBusinessDomainRest(host)) =>
                IF state_store /\ is_seen_domain(seen_domains, host)
                THEN companies' = companies /\ domains' = domains
                ELSE /\ companies'[ci].domain = host
                     /\ host \in domains'
                     /\ state_store => is_seen_domain(seen_domains', host) ]_vars

\* the step in which a domain finder answered with a structured payload
PayloadFindStep ==
    /\ Len(log') = Len(log) + 1
    /\ log'[Len(log')].op = "find"
    /\ log'[Len(log')].out = "payload"

\* C26: when a domain finder returns a structured payload, no EmailResult is
\* appended if the payload's domain was in seen_domains before the call, and
\* otherwise exactly one is appended, carrying that payload's domain and
\* contacts; this holds for every company of the phase, the ones after a
\* company that already produced an EmailResult included.
C26_PayloadResult ==
    [][ PayloadFindStep =>
            LET c == log'[Len(log')]
            IN  IF is_seen_domain(seen_domains, c.value)
                THEN email_results' = email_results
                ELSE /\ Len(email_results') = Len(email_results) + 1
                     /\ SubSeq(email_results', 1, Len(email_results)) = email_results
                     /\ email_results'[Len(email_results')].domain = c.value
                     /\ Len(email_results'[Len(email_results')].emails) = c.n ]_vars

\* C27: at every point of the domain phase and of the email phase,
\* orchestrator.email_results holds at most one EmailResult for each pair of a
\* domain and a finder.
C27_OneResultPerDomainAndFinder ==
    \A i, j \in DOMAIN email_results :
        (email_results[i].domain = email_results[j].domain
            /\ email_results[i].finder = email_results[j].finder) => i = j

(***************************************************************************)
(* Claims about the domains of run_email_discovery, checked under          *)
(* SpecEmail.                                                              *)
(***************************************************************************)
\* C28: with a state store, run_email_discovery never calls find_email for a
\* domain that was in seen_domains when the phase started (the phase leaves
\* seen_domains alone, so that is the set at any later point); in particular
\* never for a domain whose EmailResult the domain phase recorded from a
\* payload, since that phase marks such a domain seen.
C28_NoFindEmailForSeenDomain ==
    state_store =>
        /\ \A k \in DOMAIN domains_to_process :
               ~is_seen_domain(seen_domains, domains_to_process[k])
        /\ \A k \in DOMAIN CallSeq("find_email") :
               ~is_seen_domain(seen_domains, CallSeq("find_email")[k].about)

\* the phase ran with a store and finders over two domains, both seen: it
\* returned without a find_email call
C28_Witness ==
    /\ state_store
    /\ pc = "returned"
    /\ n_finders = 2
    /\ domains = {PipeD1, PipeD2}
    /\ \A d \in domains : is_seen_domain(seen_domains, d)
    /\ CallSeq("find_email") = <<>>
    /\ email_results = <<>>

(***************************************************************************)
(* Claims about the phases of run_full_pipeline, checked under Spec.       *)
(***************************************************************************)
\* C29: in a process whose run_email_finder_alone is false,
\* run_email_discovery is entered after the domain phase if and only if
\* orchestrator.email_results is empty when the domain phase ends; it is not
\* entered before, and find_email is called only once it was entered.
C29_EmailPhaseIffNoResults ==
    [][ ~alone =>
            /\ (pc = "domain" /\ pc' \in {"email", "returned"}) =>
                   (entered' <=> email_results = <<>>)
            /\ pc' \in {"search", "domain"} => ~entered'
            /\ CallsOf("find_email") # {} => entered ]_vars

\* the domain phase ended with an email result, and run_email_discovery was
\* not entered though there were finders and a domain
C29_Witness ==
    /\ ~alone
    /\ pc = "returned"
    /\ ~entered
    /\ email_results # <<>>
    /\ n_finders > 0
    /\ domains # {}
    /\ CallsOf("find") # {}

(***************************************************************************)
(* Claims about the proxies of one request call, checked under             *)
(* SpecRequest.                                                            *)
(***************************************************************************)
\* C30: within one call of request, once an attempt through a proxy failed
\* at proxy level (a connection error, a proxy error, a 403, 407 or 429), no
\* later attempt of the call goes through that proxy, and no later _get_proxy
\* of the call returns it: every retry uses a proxy different from each proxy
\* that already failed.
C30_FailedProxyNotReused ==
    [][ /\ (sent' = sent + 1 /\ proxy # NoneProxy) => proxy \notin failed
        /\ (reqPc = "select" /\ reqPc' = "send") => proxy' \notin failed ]_vars

(***************************************************************************)
(* The proxy handed to the calls of a phase: each iteration of the loops   *)
(* of run_provider_search, run_domain_discovery and run_email_discovery    *)
(* evaluates ProxyManager()._get_proxy() before it calls the provider or   *)
(* the finder (orchestrator.py:139, 246, 319).                             *)
(***************************************************************************)
MaxPhaseCalls == 3

\* the pipeline variables that the proxy of a call does not depend on
phaseFrame == <<run, state_store, fresh_cleared, fresh, alone, n_providers, n_queries,
                n_domain_finders, n_finders, companies, domains, email_results,
                all_companies, pq, ci, fi, result, domains_to_process, entered, ek,
                searched, prev_candidates, prev_searched>>

\* the operation that the loop of a phase calls
PhaseOp(phase) ==
    IF phase = "search" THEN "search" ELSE IF phase = "domain" THEN "find" ELSE "find_email"

\* one of the three phases reaches its loop
PhaseEnters ==
    /\ pc = "boot"
    /\ pc' \in {"search", "domain", "email"}
    /\ UNCHANGED <<log, phaseFrame, proxyVars, storeVars, fileVars, opVars, keyVars, reqVars>>

\* the calls of the phase made so far: the iterations that got to their call
PhaseCallsMade == SelectSeq(log, LAMBDA c : c.out # "ConfigurationError")

\* ProxyManager(): ConfigLoader().load_config() reads the files of the
\* directory "config" again and raises ConfigurationError when queries.txt is
\* missing or empty or a line of a key file is malformed; the loop's
\* `except Exception` logs it and goes on with the next iteration
NewManagerRaises ==
    /\ pc \in {"search", "domain", "email"}
    /\ proxyPc = "idle"
    /\ ncalls = Len(PhaseCallsMade)
    /\ Len(log) < MaxPhaseCalls
    /\ log' = Append(log, Call("ProxyManager", Len(log) + 1, Empty, "ConfigurationError",
                               NoneProxy, 0))
    /\ UNCHANGED <<pc, phaseFrame, proxyVars, storeVars, fileVars, opVars, keyVars, reqVars>>

\* ProxyManager(): a new manager, its index 0, no use counted, the default
\* test_interval, the pool read from proxies.txt
NewManager ==
    /\ pc \in {"search", "domain", "email"}
    /\ proxyPc = "idle"
    /\ ncalls = Len(PhaseCallsMade)
    /\ Len(log) < MaxPhaseCalls
    /\ proxy_index' = 0
    /\ use_counts' = [u \in AllProxies |-> 0]
    /\ test_interval' = DefaultTestInterval
    /\ proxies' = ReadProxyLines(proxies_file)
    /\ proxyPc' = "built"
    /\ UNCHANGED <<proxies_file, returned, ncalls, depth>>
    /\ UNCHANGED <<pc, log, phaseFrame, storeVars, fileVars, opVars, keyVars, reqVars>>

\* ._get_proxy() on the manager just built
PhaseGetProxy ==
    /\ proxyPc = "built"
    /\ IF proxies = <<>>
       THEN /\ returned' = NoneProxy
            /\ ncalls' = ncalls + 1
            /\ proxyPc' = "idle"
            /\ UNCHANGED <<proxies, proxy_index, use_counts, test_interval, proxies_file, depth>>
       ELSE \E testOk \in BOOLEAN : GetProxyBody(testOk)
    /\ UNCHANGED <<pc, log, phaseFrame, storeVars, fileVars, opVars, keyVars, reqVars>>

\* provider.search(query, proxy), domain_finder.find(company, proxy = proxy)
\* or finder.find_email(domain, proxy): the call returns or raises, and the
\* loop goes on either way
PhaseCall ==
    /\ pc \in {"search", "domain", "email"}
    /\ proxyPc = "idle"
    /\ ncalls = Len(PhaseCallsMade) + 1
    /\ \E out \in {"ok", "raise"} :
           log' = Append(log, Call(PhaseOp(pc), Len(log) + 1, Empty, out, returned, 0))
    /\ UNCHANGED <<pc, phaseFrame, proxyVars, storeVars, fileVars, opVars, keyVars, reqVars>>

NextRotation ==
    \/ PhaseEnters
    \/ NewManagerRaises
    \/ NewManager
    \/ PhaseGetProxy
    \/ PhaseCall

SpecRotation == InitProxy /\ [][NextRotation]_vars

\* C31: in a phase over a pool of n >= 2 proxies, none of which fails a
\* health check, the i-th call of the phase receives the proxy at position
\* (i - 1) mod n of the pool, for the search calls, the find calls and the
\* find_email calls alike.
C31_RoundRobin ==
    LET pool == ReadProxyLines(proxies_file)
    IN  Len(pool) >= 2 =>
            \A i \in DOMAIN PhaseCallsMade :
                PhaseCallsMade[i].value = NormalizeProxy(pool[((i - 1) % Len(pool)) + 1])

(***************************************************************************)
(* Claims about whole runs of the pipeline, checked under Spec.            *)
(***************************************************************************)
\* C32: in a process whose run_email_finder_alone is true, with an email
\* finder configured and domains known from an earlier run (the seen domains
\* its store loaded), run_full_pipeline calls find_email for each of those
\* domains before it returns.
C32_AloneProcessesKnownDomains ==
    (alone /\ state_store /\ n_finders >= 1 /\ pc = "returned") =>
        \A d \in seen_domains :
            \E k \in DOMAIN FindEmailCalls : FindEmailCalls[k].about = d

\* C33: once the domain phase of a process with a store has completed, the
\* snapshot on disk holds every domain and every email that the phase marked
\* seen, so that a crash or an unexpected exception at any later point finds
\* them persisted; likewise the company keys once the search phase completed.
C33_CompletedPhasesPersisted ==
    (state_store /\ ~alone) =>
        /\ (pc \in {"domain", "email", "returned", "saved", "exit"} /\ searched) =>
               seen_companies \subseteq Range(state_file.companies)
        /\ pc \in {"email", "returned", "saved", "exit"} =>
               /\ seen_domains \subseteq Range(state_file.domains)
               /\ seen_emails \subseteq Range(state_file.emails)

(***************************************************************************)
(* Claims about configuration errors, checked under SpecRotation.          *)
(***************************************************************************)
\* C34: a ConfigurationError is raised only before a phase runs: inside a
\* phase none is raised and swallowed by the error isolation of the loop, and
\* no provider or finder call follows a ConfigurationError.
C34_ConfigurationErrorIsFatal ==
    \A i \in DOMAIN log :
        log[i].out = "ConfigurationError" =>
            /\ pc \notin {"search", "domain", "email"}
            /\ \A j \in DOMAIN log : j > i => log[j].op \notin {"search", "find", "find_email"}

(***************************************************************************)
(* load_from_output over a snapshot file that may be unreadable            *)
(* (state.py:30-49): json.load raises, or set(...) raises on a value that  *)
(* is no list, after the assignments before it were made.                  *)
(***************************************************************************)
\* what is wrong with state.json: nothing; it does not parse as a JSON
\* object; or the value under one key is no iterable (null, a number)
SnapshotDamages == {"none", "syntax", "companies", "domains", "emails"}

\* load_from_output when state.json has the damage dmg: the assignments made
\* before the exception stay, `except Exception` logs, _load_from_files fills
\* the three sets from the output files
LoadFromOutputOf(dmg) ==
    /\ IF state_file.exists /\ dmg = "none"
       THEN /\ seen_companies' = Range(state_file.companies)
            /\ seen_domains' = Range(state_file.domains)
            /\ seen_emails' = Range(state_file.emails)
       ELSE LET read == state_file.exists /\ dmg # "syntax"
                sc == IF read /\ dmg \in {"domains", "emails"}
                      THEN Range(state_file.companies) ELSE seen_companies
                sd == IF read /\ dmg = "emails"
                      THEN Range(state_file.domains) ELSE seen_domains
            IN  /\ seen_companies' = LoadCompanies(sc, companies_files, format)
                /\ seen_domains' = LoadDomains(sd, domains_files)
                /\ seen_emails' = LoadEmails(seen_emails, emails_files, format)
    /\ UNCHANGED state_file

\* state_store.load_from_output() is called; the damage of the file is noted
StoreLoadAny ==
    \E dmg \in SnapshotDamages :
        /\ LoadFromOutputOf(dmg)
        /\ Op("load_from_output")
        /\ inA' = [kind |-> dmg, v |-> None]
        /\ UNCHANGED <<inB, fileVars, reqVars, pipeVars, proxyVars>>

NextLoad ==
    \/ StoreAddSeenCompany
    \/ StoreAddSeenDomain
    \/ StoreAddSeenEmail
    \/ StoreSaveState
    \/ StoreLoadAny

SpecLoad == InitStore /\ [][NextLoad]_vars

\* C35: load_from_output takes one of two paths. When the snapshot file
\* exists and can be read, the three sets become the snapshot's lists and no
\* output file is read. When it is missing or cannot be read, the sets hold
\* nothing of the snapshot: they are what they were before the call, filled
\* from the output files.
C35_LoadIsAllOrNothing ==
    [][ lastOp' = "load_from_output" =>
            IF state_file.exists /\ inA'.kind = "none"
            THEN /\ seen_companies' = Range(state_file.companies)
                 /\ seen_domains' = Range(state_file.domains)
                 /\ seen_emails' = Range(state_file.emails)
            ELSE /\ seen_companies' = LoadCompanies(seen_companies, companies_files, format)
                 /\ seen_domains' = LoadDomains(seen_domains, domains_files)
                 /\ seen_emails' = LoadEmails(seen_emails, emails_files, format) ]_vars

(***************************************************************************)
(* Claims about the recursion of _get_proxy, checked under SpecProxy.      *)
(***************************************************************************)
\* C36: _get_proxy ends for every pool and every run of health-check
\* answers: once every proxy of the pool has failed its health check inside
\* one call (as many failed checks in a row as the pool has proxies), the
\* call has returned nothing and is not recursing any more.
C36_GetProxyEnds ==
    proxyPc = "recursing" => depth < Len(PoolAtStart)

(***************************************************************************)
(* Claims about the output files across processes, checked under Spec.     *)
(***************************************************************************)
\* the records of the companies output files, the header row of a csv aside
WrittenCompanyRows ==
    UNION {Range(IF x = "csv" THEN DataRows(companies_files[x].rows)
                 ELSE companies_files[x].rows) : x \in Formats}

\* C37: no company is lost across a crash. When a process that resumed after
\* an earlier one stopped somewhere behind its search phase has completed, and
\* its providers returned again every company the earlier one had found, every
\* company key of the snapshot on disk is the key of a company written to the
\* companies output file, by the earlier process or by the resumed one.
C37_NoCompanyLost ==
    (state_store /\ ~alone /\ pc = "exit" /\ searched /\ prev_searched
        /\ Range(prev_candidates) \subseteq Range(all_companies)) =>
        \A key \in Range(state_file.companies) :
            \E row \in WrittenCompanyRows : NormalizeCompanyKeyObj(row) = key

\* the domains held by the domains output files, domains.txt and domains.csv
WrittenDomains(df) ==
    NonEmptyStripped(df["txt"].rows) \cup NonEmptyStripped(DataRows(df["csv"].rows))

\* C38: the save_results of a resume run removes no domain from the domains
\* output: every domain the files held before it they hold after it, also
\* when the run discovered no domain.
C38_ResumeKeepsDomains ==
    [][ (state_store /\ ~fresh_cleared /\ pc = "returned" /\ pc' = "saved") =>
            WrittenDomains(domains_files) \subseteq WrittenDomains(domains_files') ]_vars

====
